---- MODULE Spec2Model ----
(***************************************************************************)
(* A model of the cyclone_physics simulation core: the broad-phase         *)
(* bounding-volume hierarchy (rigid_body/collide_broad.rs), the particle   *)
(* contact resolver (pcontacts.rs, particle/contacts.rs), the particle     *)
(* pipelines (pphysics_system.rs, ppipeline.rs) and the cuboid/cuboid      *)
(* separating-axis test (rigid_body/collide_narrow.rs).                    *)
(*                                                                         *)
(* Real numbers are modelled as exact rationals [n, d] in lowest terms     *)
(* with d > 0; rounding and overflow of the IEEE-754 type are not          *)
(* modelled.  Inputs are drawn from sets on which every square root the    *)
(* code takes is exact.                                                    *)
(***************************************************************************)
EXTENDS Integers, Sequences, FiniteSets, TLC

(***************************************************************************)
(* Real: exact rational arithmetic                                         *)
(***************************************************************************)
RECURSIVE GCD(_, _)
GCD(a, b) == IF b = 0 THEN a ELSE GCD(b, a % b)

IAbs(i) == IF i < 0 THEN -i ELSE i

Norm(n, d) ==
    LET s == IF d < 0 THEN -1 ELSE 1
        g == GCD(IAbs(n), IAbs(d))
    IN  [n |-> (s * n) \div g, d |-> (s * d) \div g]

R(i) == [n |-> i, d |-> 1]
Frac(n, d) == Norm(n, d)

RAdd(a, b) == Norm(a.n * b.d + b.n * a.d, a.d * b.d)
RSub(a, b) == Norm(a.n * b.d - b.n * a.d, a.d * b.d)
RMul(a, b) == Norm(a.n * b.n, a.d * b.d)
RDiv(a, b) == Norm(a.n * b.d, a.d * b.n)
RNeg(a) == [n |-> -a.n, d |-> a.d]
RAbs(a) == [n |-> IAbs(a.n), d |-> a.d]
RLt(a, b) == a.n * b.d < b.n * a.d
RLe(a, b) == a.n * b.d <= b.n * a.d
RGt(a, b) == RLt(b, a)
RGe(a, b) == RLe(b, a)
RZero == R(0)
ROne == R(1)
RHalf == Frac(1, 2)

RECURSIVE ISqrtFrom(_, _)
ISqrtFrom(n, k) == IF k * k <= n THEN k ELSE ISqrtFrom(n, (k + n \div k) \div 2)
ISqrt(n) == IF n <= 0 THEN 0 ELSE ISqrtFrom(n, n)
\* sqrt of a rational; exact whenever the argument is the square of a rational
RSqrt(a) == Norm(ISqrt(a.n), ISqrt(a.d))

(***************************************************************************)
(* Vec3                                                                    *)
(***************************************************************************)
Vec(x, y, z) == [x |-> x, y |-> y, z |-> z]
VecI(x, y, z) == Vec(R(x), R(y), R(z))
VZero == VecI(0, 0, 0)
VAdd(a, b) == Vec(RAdd(a.x, b.x), RAdd(a.y, b.y), RAdd(a.z, b.z))
VSub(a, b) == Vec(RSub(a.x, b.x), RSub(a.y, b.y), RSub(a.z, b.z))
VScale(a, s) == Vec(RMul(a.x, s), RMul(a.y, s), RMul(a.z, s))
VDivS(a, s) == Vec(RDiv(a.x, s), RDiv(a.y, s), RDiv(a.z, s))
VNeg(a) == Vec(RNeg(a.x), RNeg(a.y), RNeg(a.z))
Dot(a, b) == RAdd(RAdd(RMul(a.x, b.x), RMul(a.y, b.y)), RMul(a.z, b.z))
Cross(a, b) ==
    Vec(RSub(RMul(a.y, b.z), RMul(a.z, b.y)),
        RSub(RMul(a.z, b.x), RMul(a.x, b.z)),
        RSub(RMul(a.x, b.y), RMul(a.y, b.x)))
SquaredMagnitude(a) == Dot(a, a)
Magnitude(a) == RSqrt(SquaredMagnitude(a))
Normalized(a) ==
    LET sq_mag == SquaredMagnitude(a)
    IN  IF RLe(sq_mag, RZero) THEN a ELSE VDivS(a, RSqrt(sq_mag))
DistanceToSquared(a, b) == SquaredMagnitude(VSub(b, a))
DistanceTo(a, b) == Magnitude(VSub(b, a))
DirectionTo(a, b) == Normalized(VSub(b, a))

(***************************************************************************)
(* BoundingSphere                                                          *)
(***************************************************************************)
Sphere(c, r) == [center |-> c, radius |-> r]

OverlapsTouching(a, b) ==
    LET sum_of_radii == RAdd(a.radius, b.radius)
    IN  RLe(DistanceToSquared(a.center, b.center), RMul(sum_of_radii, sum_of_radii))

Overlaps(a, b) ==
    LET sum_of_radii == RAdd(a.radius, b.radius)
    IN  RLt(DistanceToSquared(a.center, b.center), RMul(sum_of_radii, sum_of_radii))

\* 1.333333 * PI * r^3; the positive factor is dropped, sizes are only compared
Size(a) == RMul(RMul(a.radius, a.radius), a.radius)

NewEnclosing(one, two) ==
    LET center_offset == VSub(two.center, one.center)
        distance_squared == SquaredMagnitude(center_offset)
        radius_diff == RSub(two.radius, one.radius)
    IN  IF RGe(RMul(radius_diff, radius_diff), distance_squared)
        THEN (IF RGt(one.radius, two.radius) THEN one ELSE two)
        ELSE LET distance == RSqrt(distance_squared)
                 radius == RMul(RAdd(RAdd(distance, one.radius), two.radius), RHalf)
                 center == IF RGt(distance, RZero)
                           THEN VAdd(one.center,
                                     VScale(center_offset,
                                            RDiv(RSub(radius, one.radius), distance)))
                           ELSE one.center
             IN  Sphere(center, radius)

GetGrowth(self, new_volume) ==
    LET new_sphere == NewEnclosing(self, new_volume)
    IN  RSub(RMul(new_sphere.radius, new_sphere.radius), RMul(self.radius, self.radius))

SetPosition(self, new_position) == [self EXCEPT !.center = new_position]

(***************************************************************************)
(* Bvh: an arena of nodes (SlotMap) and a root handle.  A tree value t is  *)
(* [nodes, root, next, failed]: nodes maps the live keys to their nodes,   *)
(* next is the key the arena hands out next (keys are never handed out     *)
(* twice), failed records that an operation panicked.                      *)
(***************************************************************************)
NoNode == 0
NoBody == 0

Leaf(body) == [kind |-> "Leaf", body |-> body, left |-> NoNode, right |-> NoNode]
Branch(left, right) == [kind |-> "Branch", body |-> NoBody, left |-> left, right |-> right]

NewLeaf(body, volume) == [volume |-> volume, parent |-> NoNode, data |-> Leaf(body)]
NewBranch(left, right, left_volume, right_volume) ==
    [volume |-> NewEnclosing(left_volume, right_volume),
     parent |-> NoNode,
     data |-> Branch(left, right)]
WithParent(node, parent) == [node EXCEPT !.parent = parent]

\* SlotMap::remove
SlotRemove(nodes, id) == [k \in (DOMAIN nodes) \ {id} |-> nodes[k]]
\* indexing the arena with a key it does not hold panics
Panic(t) == [t EXCEPT !.failed = TRUE]
Live(t, id) == id \in DOMAIN t.nodes

BvhNew(body, volume) ==
    [nodes |-> (1 :> NewLeaf(body, volume)), root |-> 1, next |-> 2, failed |-> FALSE]

\* the split of a leaf, collide_broad.rs:119-137
SplitLeaf(t, id, new_body, new_volume) ==
    LET clone_id == t.next
        new_id == t.next + 1
        clone == WithParent(t.nodes[id], id)
        new_leaf == WithParent(NewLeaf(new_body, new_volume), id)
        branch == WithParent(NewBranch(clone_id, new_id, clone.volume, new_leaf.volume),
                             t.nodes[id].parent)
    IN  [t EXCEPT !.nodes = (clone_id :> clone) @@ (new_id :> new_leaf)
                                @@ [t.nodes EXCEPT ![id] = branch],
                  !.next = t.next + 2]

\* a descent that also goes left when both children grow the same
DescendLeftOnTie(t, left, right, new_volume) ==
    RLe(GetGrowth(t.nodes[left].volume, new_volume),
        GetGrowth(t.nodes[right].volume, new_volume))

\* which child of a branch takes the inserted volume, collide_broad.rs:142-148
DescendLeft(t, left, right, new_volume) ==
    RLt(GetGrowth(t.nodes[left].volume, new_volume),
        GetGrowth(t.nodes[right].volume, new_volume))

RECURSIVE InsertAt(_, _, _, _)
InsertAt(t, id, new_body, new_volume) ==
    IF ~Live(t, id) THEN Panic(t)
    ELSE IF t.nodes[id].data.kind = "Leaf"
    THEN SplitLeaf(t, id, new_body, new_volume)
    ELSE LET left == t.nodes[id].data.left
             right == t.nodes[id].data.right
         IN  IF ~Live(t, left) \/ ~Live(t, right) THEN Panic(t)
             ELSE IF DescendLeft(t, left, right, new_volume)
             THEN InsertAt(t, left, new_body, new_volume)
             ELSE InsertAt(t, right, new_body, new_volume)

Insert(t, new_body, new_volume) == InsertAt(t, t.root, new_body, new_volume)

RECURSIVE RecalculateBoundingVolume(_, _)
RecalculateBoundingVolume(t, id) ==
    IF ~Live(t, id) THEN Panic(t)
    ELSE IF t.nodes[id].data.kind # "Branch" THEN t
    ELSE LET left == t.nodes[id].data.left
             right == t.nodes[id].data.right
         IN  IF ~Live(t, left) \/ ~Live(t, right) THEN Panic(t)
             ELSE LET t1 == [t EXCEPT !.nodes[id].volume =
                                 NewEnclosing(t.nodes[left].volume, t.nodes[right].volume)]
                  IN  IF t1.nodes[id].parent # NoNode
                      THEN RecalculateBoundingVolume(t1, t1.nodes[id].parent)
                      ELSE t1

SiblingOf(id, left, right) == IF id = left THEN right ELSE left

\* remove_node's sibling processing without self.nodes.remove(sibling_id)
CollapseSiblingKeepsSlot(t, id) ==
    LET parent == t.nodes[id].parent
    IN  IF parent = NoNode THEN t
        ELSE IF ~Live(t, parent) THEN Panic(t)
        ELSE IF t.nodes[parent].data.kind # "Branch" THEN Panic(t)
        ELSE LET sibling == SiblingOf(id, t.nodes[parent].data.left,
                                      t.nodes[parent].data.right)
             IN  IF ~Live(t, sibling) THEN Panic(t)
                 ELSE RecalculateBoundingVolume(
                          [t EXCEPT !.nodes[parent].volume = t.nodes[sibling].volume,
                                    !.nodes[parent].data = t.nodes[sibling].data],
                          parent)

\* the sibling processing of remove_node, collide_broad.rs:155-175
CollapseSibling(t, id) ==
    LET parent == t.nodes[id].parent
    IN  IF parent = NoNode THEN t
        ELSE IF ~Live(t, parent) THEN Panic(t)
        ELSE IF t.nodes[parent].data.kind # "Branch" THEN Panic(t)
        ELSE LET sibling == SiblingOf(id, t.nodes[parent].data.left,
                                      t.nodes[parent].data.right)
             IN  IF ~Live(t, sibling) THEN Panic(t)
                 ELSE LET written == [t.nodes EXCEPT
                                         ![parent].volume = t.nodes[sibling].volume,
                                         ![parent].data = t.nodes[sibling].data]
                          t1 == [t EXCEPT !.nodes = SlotRemove(written, sibling),
                                          !.root = IF parent = t.root THEN parent ELSE t.root]
                      IN  RecalculateBoundingVolume(t1, parent)

RECURSIVE RemoveNode(_, _)

\* self.nodes[child].parent = None; self.remove_node(child), collide_broad.rs:181-184
RemoveChild(t, child) ==
    IF t.failed THEN t
    ELSE IF ~Live(t, child) THEN Panic(t)
    ELSE RemoveNode([t EXCEPT !.nodes[child].parent = NoNode], child)

\* the deletion of a branch's children, collide_broad.rs:177-185
RemoveChildren(t, id) ==
    IF t.failed THEN t
    ELSE IF ~Live(t, id) THEN Panic(t)
    ELSE IF t.nodes[id].data.kind = "Branch"
    THEN RemoveChild(RemoveChild(t, t.nodes[id].data.left), t.nodes[id].data.right)
    ELSE t

\* self.nodes.remove(id), collide_broad.rs:187
RemoveSelfForgotten(t, id) == t
RemoveSelf(t, id) ==
    IF t.failed THEN t ELSE [t EXCEPT !.nodes = SlotRemove(t.nodes, id)]

RemoveNode(t, id) ==
    IF t.failed THEN t
    ELSE IF ~Live(t, id) THEN Panic(t)
    ELSE RemoveSelf(RemoveChildren(CollapseSibling(t, id), id), id)

\* the leaves find_map matches; bodies are pairwise distinct, so at most one
LeavesOf(t, body) ==
    {id \in DOMAIN t.nodes :
        t.nodes[id].data.kind = "Leaf" /\ t.nodes[id].data.body = body}

\* remove_body: [tree, found]
RemoveBody(t, body) ==
    LET ids == LeavesOf(t, body)
    IN  IF ids = {} THEN [tree |-> t, found |-> FALSE]
        ELSE LET id == CHOOSE i \in ids : \A j \in ids : i <= j
             IN  [tree |-> RemoveNode(t, id), found |-> TRUE]

RECURSIVE UpdateAt(_, _, _)
UpdateAt(t, id, bodies) ==
    IF t.failed THEN t
    ELSE IF ~Live(t, id) THEN Panic(t)
    ELSE IF t.nodes[id].data.kind = "Leaf"
    THEN [t EXCEPT !.nodes[id].volume =
              SetPosition(t.nodes[id].volume, bodies[t.nodes[id].data.body])]
    ELSE LET left == t.nodes[id].data.left
             right == t.nodes[id].data.right
             t1 == UpdateAt(t, left, bodies)
             t2 == UpdateAt(t1, right, bodies)
         IN  IF t2.failed THEN t2
             ELSE [t2 EXCEPT !.nodes[id].volume =
                      NewEnclosing(t2.nodes[left].volume, t2.nodes[right].volume)]

Update(t, bodies) == UpdateAt(t, t.root, bodies)

(***************************************************************************)
(* generate_potential_contacts: [out, failed], out the pairs pushed        *)
(***************************************************************************)
PotentialContact(body_a, body_b) == [body_a |-> body_a, body_b |-> body_b]
NoContacts == [out |-> <<>>, failed |-> FALSE]
GenPanic == [out |-> <<>>, failed |-> TRUE]
GenCat(r1, r2) ==
    IF r1.failed THEN r1 ELSE [out |-> r1.out \o r2.out, failed |-> r2.failed]

NodeOverlaps(node_a, node_b) == Overlaps(node_a.volume, node_b.volume)

RECURSIVE GeneratePotentialContactsBetween(_, _, _)
GeneratePotentialContactsBetween(t, id_a, id_b) ==
    IF ~Live(t, id_a) \/ ~Live(t, id_b) THEN GenPanic
    ELSE LET node_a == t.nodes[id_a]
             node_b == t.nodes[id_b]
         IN  IF ~NodeOverlaps(node_a, node_b) THEN NoContacts
             ELSE IF node_a.data.kind = "Leaf" /\ node_b.data.kind = "Leaf"
             THEN [out |-> <<PotentialContact(node_a.data.body, node_b.data.body)>>,
                   failed |-> FALSE]
             ELSE IF node_a.data.kind = "Branch" /\ node_b.data.kind = "Leaf"
             THEN GenCat(GeneratePotentialContactsBetween(t, node_a.data.left, id_b),
                         GeneratePotentialContactsBetween(t, node_a.data.right, id_b))
             ELSE IF node_a.data.kind = "Leaf" /\ node_b.data.kind = "Branch"
             THEN GenCat(GeneratePotentialContactsBetween(t, node_b.data.left, id_a),
                         GeneratePotentialContactsBetween(t, node_b.data.right, id_a))
             ELSE IF RGe(Size(node_a.volume), Size(node_b.volume))
             THEN GenCat(GeneratePotentialContactsBetween(t, node_a.data.left, id_b),
                         GeneratePotentialContactsBetween(t, node_a.data.right, id_b))
             ELSE GenCat(GeneratePotentialContactsBetween(t, node_b.data.left, id_a),
                         GeneratePotentialContactsBetween(t, node_b.data.right, id_a))

\* a walk that forgets the pairs inside the right child
RECURSIVE GeneratePotentialContactsAtLeftOnly(_, _)
GeneratePotentialContactsAtLeftOnly(t, id) ==
    IF ~Live(t, id) THEN GenPanic
    ELSE IF t.nodes[id].data.kind # "Branch" THEN NoContacts
    ELSE LET left == t.nodes[id].data.left
             right == t.nodes[id].data.right
         IN  GenCat(GeneratePotentialContactsBetween(t, left, right),
                    GeneratePotentialContactsAtLeftOnly(t, left))

RECURSIVE GeneratePotentialContactsAt(_, _)
GeneratePotentialContactsAt(t, id) ==
    IF ~Live(t, id) THEN GenPanic
    ELSE IF t.nodes[id].data.kind # "Branch" THEN NoContacts
    ELSE LET left == t.nodes[id].data.left
             right == t.nodes[id].data.right
         IN  GenCat(GeneratePotentialContactsBetween(t, left, right),
                    GenCat(GeneratePotentialContactsAt(t, left),
                           GeneratePotentialContactsAt(t, right)))

GeneratePotentialContacts(t) == GeneratePotentialContactsAt(t, t.root)

(***************************************************************************)
(* Particle and ParticleContact                                            *)
(***************************************************************************)
NoParticle == 0

Particle(position, velocity, acceleration, damping, inverse_mass) ==
    [position |-> position, velocity |-> velocity, acceleration |-> acceleration,
     damping |-> damping, inverse_mass |-> inverse_mass, force_accum |-> VZero]

\* ParticleContact::new: the movements start at zero
ParticleContact(particle_a, particle_b, restitution, normal, penetration) ==
    [particle_a |-> particle_a, particle_b |-> particle_b,
     restitution |-> restitution, normal |-> normal, penetration |-> penetration,
     particle_a_movement |-> VZero, particle_b_movement |-> VZero]

\* ParticleContact::default()
DefaultContact == ParticleContact(NoParticle, NoParticle, RZero, VZero, RZero)

\* Real::MAX: above every value the model reaches
RealMax == [n |-> 1, d |-> 0]

(***************************************************************************)
(* ParticleContactResolver                                                 *)
(***************************************************************************)
\* ps: the ParticleSet, a function from particle handles to particles
CalculateSeperatingVelocity(ps, c) ==
    Dot(IF c.particle_b # NoParticle
        THEN VSub(ps[c.particle_a].velocity, ps[c.particle_b].velocity)
        ELSE ps[c.particle_a].velocity,
        c.normal)

TotalInvMass(ps, c) ==
    IF c.particle_b # NoParticle
    THEN RAdd(ps[c.particle_a].inverse_mass, ps[c.particle_b].inverse_mass)
    ELSE ps[c.particle_a].inverse_mass

\* acc_caused_sep_velocity, pcontacts.rs:165-170
AccCausedSepVelocity(ps, c, duration) ==
    RMul(Dot(IF c.particle_b # NoParticle
             THEN VSub(ps[c.particle_a].acceleration, ps[c.particle_b].acceleration)
             ELSE ps[c.particle_a].acceleration,
             c.normal),
         duration)

\* new_sep_velocity, pcontacts.rs:163-177
NewSepVelocity(ps, c, duration) ==
    LET bounce == RMul(RNeg(c.restitution), CalculateSeperatingVelocity(ps, c))
        acc_caused == AccCausedSepVelocity(ps, c, duration)
        reduced == RAdd(bounce, RMul(acc_caused, c.restitution))
    IN  IF RLt(acc_caused, RZero)
        THEN (IF RLt(reduced, RZero) THEN RZero ELSE reduced)
        ELSE bounce

\* impulse_per_inv_mass, pcontacts.rs:179-191
ImpulsePerInvMass(ps, c, duration) ==
    VScale(c.normal,
           RDiv(RSub(NewSepVelocity(ps, c, duration), CalculateSeperatingVelocity(ps, c)),
                TotalInvMass(ps, c)))

\* the velocity particle_b gets, pcontacts.rs:195-197
VelocityOfB(ps, c, impulse_per_inv_mass) ==
    VAdd(ps[c.particle_b].velocity,
         VScale(impulse_per_inv_mass, ps[c.particle_b].inverse_mass))

ApplyImpulse(ps, c, impulse_per_inv_mass) ==
    [h \in DOMAIN ps |->
        IF h = c.particle_a
        THEN [ps[h] EXCEPT !.velocity =
                 VAdd(ps[h].velocity, VScale(impulse_per_inv_mass, ps[h].inverse_mass))]
        ELSE IF h = c.particle_b
        THEN [ps[h] EXCEPT !.velocity = VelocityOfB(ps, c, impulse_per_inv_mass)]
        ELSE ps[h]]

\* resolve_velocity: the particles after it
ResolveVelocity(ps, c, duration) ==
    IF RGt(CalculateSeperatingVelocity(ps, c), RZero) THEN ps
    ELSE IF RLe(TotalInvMass(ps, c), RZero) THEN ps
    ELSE ApplyImpulse(ps, c, ImpulsePerInvMass(ps, c, duration))

\* move_per_inv_mass, pcontacts.rs:219
MovePerInvMass(ps, c) == VScale(c.normal, RDiv(c.penetration, TotalInvMass(ps, c)))

\* whether resolve_interpenetration moves anything, pcontacts.rs:206-217
Interpenetrating(ps, c) == RGt(c.penetration, RZero) /\ RGt(TotalInvMass(ps, c), RZero)

\* resolve_interpenetration: the contact after it
MovedContact(ps, c) ==
    IF ~Interpenetrating(ps, c) THEN c
    ELSE [c EXCEPT
            !.particle_a_movement = VScale(MovePerInvMass(ps, c), ps[c.particle_a].inverse_mass),
            !.particle_b_movement =
                IF c.particle_b # NoParticle
                THEN VScale(MovePerInvMass(ps, c), ps[c.particle_b].inverse_mass)
                ELSE VZero]

\* resolve_interpenetration: the particles after it, mc the contact after it
MovedParticles(ps, c, mc) ==
    IF ~Interpenetrating(ps, c) THEN ps
    ELSE [h \in DOMAIN ps |->
            IF h = c.particle_a
            THEN [ps[h] EXCEPT !.position = VAdd(ps[h].position, mc.particle_a_movement)]
            ELSE IF h = c.particle_b
            THEN [ps[h] EXCEPT !.position = VAdd(ps[h].position, mc.particle_b_movement)]
            ELSE ps[h]]

\* resolve_contact: the particles after resolve_velocity and resolve_interpenetration
ResolveContactParticles(ps, c, duration) ==
    MovedParticles(ResolveVelocity(ps, c, duration), c,
                   MovedContact(ResolveVelocity(ps, c, duration), c))
\* resolve_contact: the contact after it
ResolveContactData(ps, c, duration) == MovedContact(ResolveVelocity(ps, c, duration), c)

\* the selection test of the scan, pcontacts.rs:99
Selected(sep_vel, max, c) ==
    (RLt(sep_vel, max) /\ RLt(sep_vel, RZero)) \/ RGt(c.penetration, RZero)

(***************************************************************************)
(* ParticleContactResolver::resolve as a function of its arguments          *)
(***************************************************************************)
\* the for loop from index i on: the particles, the contacts and
\* iterations_used when the loop is left
RECURSIVE ResolveFor(_, _, _, _, _, _, _)
ResolveFor(ps, cs, i, max, max_idx, used, duration) ==
    IF i >= Len(cs) THEN [particles |-> ps, contacts |-> cs, used |-> used]
    ELSE IF (IF Selected(CalculateSeperatingVelocity(ps, cs[i + 1]), max, cs[i + 1])
             THEN i ELSE max_idx) = Len(cs)
    THEN [particles |-> ps, contacts |-> cs, used |-> used]
    ELSE ResolveFor(ResolveContactParticles(ps, cs[i + 1], duration),
                    [cs EXCEPT ![i + 1] = ResolveContactData(ps, cs[i + 1], duration)],
                    i + 1,
                    IF Selected(CalculateSeperatingVelocity(ps, cs[i + 1]), max, cs[i + 1])
                    THEN CalculateSeperatingVelocity(ps, cs[i + 1]) ELSE max,
                    IF Selected(CalculateSeperatingVelocity(ps, cs[i + 1]), max, cs[i + 1])
                    THEN i ELSE max_idx,
                    used + 1, duration)

\* the while loop: whether resolve returns, and the particles it leaves.  A
\* pass of the for loop that resolves nothing changes nothing, so the same
\* pass repeats for ever and resolve does not return.
RECURSIVE ResolveWhile(_, _, _, _, _)
ResolveWhile(ps, cs, used, cap, duration) ==
    IF ~(used < cap) THEN [returns |-> TRUE, particles |-> ps]
    ELSE IF ResolveFor(ps, cs, 0, RealMax, Len(cs), used, duration).used = used
    THEN [returns |-> FALSE, particles |-> ps]
    ELSE ResolveWhile(ResolveFor(ps, cs, 0, RealMax, Len(cs), used, duration).particles,
                      ResolveFor(ps, cs, 0, RealMax, Len(cs), used, duration).contacts,
                      ResolveFor(ps, cs, 0, RealMax, Len(cs), used, duration).used,
                      cap, duration)

\* resolver.resolve(contacts, particles, duration) with resolver.iterations = cap
Resolve(ps, cs, cap, duration) == ResolveWhile(ps, cs, 0, cap, duration)

(***************************************************************************)
(* Particle::integrate and the contact generators of plinks.rs              *)
(***************************************************************************)
\* damping.powf(duration), for the arguments whose power is rational: x^1 = x,
\* 1^d = 1, x^0 = 1 and 0^d = 0 for d > 0; the model uses no other arguments
Powf(damping, duration) ==
    IF duration = ROne THEN damping
    ELSE IF damping = ROne \/ duration = RZero THEN ROne
    ELSE IF damping = RZero /\ RGt(duration, RZero) THEN RZero
    ELSE ROne

\* Particle::integrate without the early return on inverse_mass <= 0.0
IntegrateAlways(p, duration) ==
    [p EXCEPT
        !.position = VAdd(p.position, VScale(p.velocity, duration)),
        !.velocity = VAdd(VScale(p.velocity, Powf(p.damping, duration)),
                          VScale(VAdd(p.acceleration,
                                      VScale(p.force_accum, p.inverse_mass)),
                                 duration)),
        !.force_accum = VZero]

\* Particle::integrate with the position advanced by the velocity, not by
\* velocity * duration
IntegrateUnscaled(p, duration) ==
    IF RLe(p.inverse_mass, RZero) THEN p
    ELSE [p EXCEPT
            !.position = VAdd(p.position, p.velocity),
            !.velocity = VAdd(VScale(p.velocity, Powf(p.damping, duration)),
                              VScale(VAdd(p.acceleration,
                                          VScale(p.force_accum, p.inverse_mass)),
                                     duration)),
            !.force_accum = VZero]

\* Particle::integrate; force_accum is cleared at its end
Integrate(p, duration) ==
    IF RLe(p.inverse_mass, RZero) THEN p
    ELSE [p EXCEPT
            !.position = VAdd(p.position, VScale(p.velocity, duration)),
            !.velocity = VAdd(VScale(p.velocity, Powf(p.damping, duration)),
                              VScale(VAdd(p.acceleration,
                                          VScale(p.force_accum, p.inverse_mass)),
                                     duration)),
            !.force_accum = VZero]

\* Particle::clear_accumulator
ClearAccumulator(p) == [p EXCEPT !.force_accum = VZero]

\* for particle in particles.particles_mut() { particle.integrate(duration) }
IntegrateAll(ps, duration) == [h \in DOMAIN ps |-> Integrate(ps[h], duration)]

ParticleAnchoredSpring(anchor, spring_constant, rest_length) ==
    [kind |-> "ParticleAnchoredSpring", anchor |-> anchor,
     spring_constant |-> spring_constant, rest_length |-> rest_length]

\* Particle::add_force
AddForce(p, force) == [p EXCEPT !.force_accum = VAdd(p.force_accum, force)]

\* the force of ParticleAnchoredSpring::update_force on a particle at position
SpringForce(fg, position) ==
    VScale(Normalized(VSub(position, fg.anchor)),
           RMul(RNeg(fg.spring_constant),
                RSub(Magnitude(VSub(position, fg.anchor)), fg.rest_length)))

\* ParticleAnchoredSpring::update_force(particles, particle_key, duration)
UpdateForce(fg, ps, particle_key) ==
    [ps EXCEPT ![particle_key] = AddForce(ps[particle_key],
                                          SpringForce(fg, ps[particle_key].position))]

\* for reg in self.force_registry { fgs[reg.fg].update_force(particles, reg.particle) },
\* from registration k on
RECURSIVE UpdateForces(_, _, _, _)
UpdateForces(fgs, registry, k, ps) ==
    IF k > Len(registry) THEN ps
    ELSE UpdateForces(fgs, registry, k + 1,
                      UpdateForce(fgs[registry[k].fg], ps, registry[k].particle))

\* step, up to contact generation: the forces are deposited, then every
\* particle is integrated
StepParticles(fgs, registry, ps, duration) ==
    IntegrateAll(UpdateForces(fgs, registry, 1, ps), duration)

ParticleCable(particle_a, particle_b, max_length, restitution) ==
    [kind |-> "ParticleCable", particle_a |-> particle_a, particle_b |-> particle_b,
     max_length |-> max_length, restitution |-> restitution]

ParticleGroundCollider(particle, particle_radius, restitution) ==
    [kind |-> "ParticleGroundCollider", particle |-> particle,
     particle_radius |-> particle_radius, restitution |-> restitution]

\* whether add_contacts of the generator has a contact to write
HasContact(cg, ps) ==
    IF cg.kind = "ParticleCable"
    THEN ~RLt(DistanceTo(ps[cg.particle_a].position, ps[cg.particle_b].position),
              cg.max_length)
    ELSE ~RGt(ps[cg.particle].position.y, cg.particle_radius)

\* the contact add_contacts writes to contacts[0]
ContactOf(cg, ps) ==
    IF cg.kind = "ParticleCable"
    THEN ParticleContact(cg.particle_a, cg.particle_b, cg.restitution,
             DirectionTo(ps[cg.particle_a].position, ps[cg.particle_b].position),
             RSub(DistanceTo(ps[cg.particle_a].position, ps[cg.particle_b].position),
                  cg.max_length))
    ELSE ParticleContact(cg.particle, NoParticle, cg.restitution, VecI(0, 1, 0),
             RSub(cg.particle_radius, ps[cg.particle].position.y))

\* add_contacts on the slice buf[offset..] (offset counts from 0): the buffer
\* after it, the number of contacts it used, and whether contacts[0] was
\* written outside the slice, which panics
AddContacts(cg, buf, offset, ps) ==
    IF ~HasContact(cg, ps) THEN [contacts |-> buf, used |-> 0, failed |-> FALSE]
    ELSE IF offset >= Len(buf) THEN [contacts |-> buf, used |-> 0, failed |-> TRUE]
    ELSE [contacts |-> [buf EXCEPT ![offset + 1] = ContactOf(cg, ps)],
          used |-> 1, failed |-> FALSE]

\* the loop of ParticlePhysicsSystem::generate_contacts from generator k on;
\* offset is max_contacts - contacts.len()
RECURSIVE GenerateLoop(_, _, _, _, _)
GenerateLoop(gens, k, buf, offset, ps) ==
    IF k > Len(gens) THEN [contacts |-> buf, used |-> offset, failed |-> FALSE]
    ELSE IF AddContacts(gens[k], buf, offset, ps).failed
    THEN [contacts |-> buf, used |-> offset, failed |-> TRUE]
    ELSE IF offset + AddContacts(gens[k], buf, offset, ps).used = Len(buf)
    THEN [contacts |-> AddContacts(gens[k], buf, offset, ps).contacts,
          used |-> Len(buf), failed |-> FALSE]
    ELSE GenerateLoop(gens, k + 1, AddContacts(gens[k], buf, offset, ps).contacts,
                      offset + AddContacts(gens[k], buf, offset, ps).used, ps)

\* ParticlePhysicsSystem::generate_contacts
SystemGenerateContacts(gens, buf, ps) == GenerateLoop(gens, 1, buf, 0, ps)

\* ParticlePipeline::generate_contacts: the slice is contacts[contacts_used..]
PipelineGenerate(cg, buf, used, ps) ==
    IF used >= Len(buf) THEN [contacts |-> buf, used |-> used, failed |-> FALSE]
    ELSE [contacts |-> AddContacts(cg, buf, used, ps).contacts,
          used |-> used + AddContacts(cg, buf, used, ps).used,
          failed |-> AddContacts(cg, buf, used, ps).failed]

(***************************************************************************)
(* Mat4: the upper 3x4 of a homogeneous matrix, row-major; data[i] of the   *)
(* code is data[i + 1] here.                                               *)
(***************************************************************************)
Mat4(x_axis, y_axis, z_axis, position) ==
    <<x_axis.x, y_axis.x, z_axis.x, position.x,
      x_axis.y, y_axis.y, z_axis.y, position.y,
      x_axis.z, y_axis.z, z_axis.z, position.z>>

\* Mat4::transform
Transform(m, v) ==
    Vec(RAdd(RAdd(RAdd(RMul(v.x, m[1]), RMul(v.y, m[2])), RMul(v.z, m[3])), m[4]),
        RAdd(RAdd(RAdd(RMul(v.x, m[5]), RMul(v.y, m[6])), RMul(v.z, m[7])), m[8]),
        RAdd(RAdd(RAdd(RMul(v.x, m[9]), RMul(v.y, m[10])), RMul(v.z, m[11])), m[12]))

\* column i of the matrix: the rotated body axis i, or the position for i = 3
GetAxisVector(m, i) == Vec(m[i + 1], m[i + 5], m[i + 9])
GetXAxis(m) == GetAxisVector(m, 0)
GetYAxis(m) == GetAxisVector(m, 1)
GetZAxis(m) == GetAxisVector(m, 2)
GetPosition(m) == GetAxisVector(m, 3)

\* Index and IndexMut of Vec3
VecGet(v, i) == IF i = 0 THEN v.x ELSE IF i = 1 THEN v.y ELSE v.z
VecSet(v, i, r) ==
    IF i = 0 THEN [v EXCEPT !.x = r] ELSE IF i = 1 THEN [v EXCEPT !.y = r]
    ELSE [v EXCEPT !.z = r]

(***************************************************************************)
(* collide_narrow.rs: cuboid against cuboid                                *)
(***************************************************************************)
Cuboid(half_size) == [half_size |-> half_size]

Contact(body_a, body_b, point, normal, penetration) ==
    [body_a |-> body_a, body_b |-> body_b, point |-> point, normal |-> normal,
     penetration |-> penetration]

TransformCuboidToAxis(cuboid, cuboid_transform, axis) ==
    RAdd(RAdd(RMul(cuboid.half_size.x, RAbs(Dot(GetXAxis(cuboid_transform), axis))),
              RMul(cuboid.half_size.y, RAbs(Dot(GetYAxis(cuboid_transform), axis)))),
         RMul(cuboid.half_size.z, RAbs(Dot(GetZAxis(cuboid_transform), axis))))

CuboidsPenetrationOnAxis(cuboid_a, transform_a, cuboid_b, transform_b, axis, to_center) ==
    RSub(RAdd(TransformCuboidToAxis(cuboid_a, transform_a, axis),
              TransformCuboidToAxis(cuboid_b, transform_b, axis)),
         RAbs(Dot(to_center, axis)))

CuboidEdgeEdgeContactPoint(axis_a, edge_point_a, axis_b, edge_point_b) ==
    LET to_st == VSub(edge_point_a, edge_point_b)
        dp_sta_a == Dot(to_st, axis_a)
        dp_sta_b == Dot(to_st, axis_b)
        sm_a == SquaredMagnitude(axis_a)
        sm_b == SquaredMagnitude(axis_b)
        dot_product_edges == Dot(axis_a, axis_b)
        denom == RSub(RMul(sm_a, sm_b), RMul(dot_product_edges, dot_product_edges))
        a == RDiv(RSub(RMul(dot_product_edges, dp_sta_b), RMul(sm_b, dp_sta_a)), denom)
        b == RDiv(RSub(RMul(sm_a, dp_sta_b), RMul(dot_product_edges, dp_sta_a)), denom)
    IN  VAdd(VScale(VAdd(edge_point_a, VScale(axis_a, a)), RHalf),
             VScale(VAdd(edge_point_b, VScale(axis_b, b)), RHalf))

\* the fifteen axes; axes[i] of the code is Axes(..)[i + 1]
Axes(transform_a, transform_b) ==
    <<GetXAxis(transform_a), GetYAxis(transform_a), GetZAxis(transform_a),
      GetXAxis(transform_b), GetYAxis(transform_b), GetZAxis(transform_b),
      Cross(GetXAxis(transform_a), GetXAxis(transform_b)),
      Cross(GetXAxis(transform_a), GetYAxis(transform_b)),
      Cross(GetXAxis(transform_a), GetZAxis(transform_b)),
      Cross(GetYAxis(transform_a), GetXAxis(transform_b)),
      Cross(GetYAxis(transform_a), GetYAxis(transform_b)),
      Cross(GetYAxis(transform_a), GetZAxis(transform_b)),
      Cross(GetZAxis(transform_a), GetXAxis(transform_b)),
      Cross(GetZAxis(transform_a), GetYAxis(transform_b)),
      Cross(GetZAxis(transform_a), GetZAxis(transform_b))>>

ToCenter(transform_a, transform_b) ==
    VSub(GetPosition(transform_b), GetPosition(transform_a))

\* axes the loop does not skip: squared_magnitude() < 0.001 is false
AxisTested(axis) == ~RLt(SquaredMagnitude(axis), Frac(1, 1000))

\* best_case before the loop: usize::MAX, no axis
NoCase == 15

\* The overlap of a tested axis, kept as [u, q] for the number u / sqrt(q):
\* cuboids_penetration_on_axis is homogeneous of degree one in the axis, so its
\* value on axis.normalized() is its value u on the axis divided by the
\* magnitude sqrt(q) of the axis, which need not be rational.
ScaledOverlap(cuboid_a, transform_a, cuboid_b, transform_b, axis) ==
    [u |-> CuboidsPenetrationOnAxis(cuboid_a, transform_a, cuboid_b, transform_b,
               axis, ToCenter(transform_a, transform_b)),
     q |-> SquaredMagnitude(axis)]

\* Real::MAX as an overlap
MaxOverlap == [u |-> RealMax, q |-> ROne]

\* overlap < best_overlap, decided without taking a square root
OverlapLt(overlap, best_overlap) ==
    IF best_overlap.u = RealMax THEN TRUE
    ELSE IF RLt(overlap.u, RZero)
    THEN IF RLt(best_overlap.u, RZero)
         THEN RGt(RMul(RDiv(overlap.u, best_overlap.u), RDiv(overlap.u, best_overlap.u)),
                  RDiv(overlap.q, best_overlap.q))
         ELSE TRUE
    ELSE IF RLe(best_overlap.u, RZero) THEN FALSE
    ELSE RLt(RMul(RDiv(overlap.u, best_overlap.u), RDiv(overlap.u, best_overlap.u)),
             RDiv(overlap.q, best_overlap.q))

\* the Real an overlap stands for; exact when the axis has a rational magnitude
OverlapValue(overlap) ==
    IF overlap.u = RealMax THEN RealMax ELSE RDiv(overlap.u, RSqrt(overlap.q))

\* the loop over the axes from index i on; overlaps[i + 1] is the overlap on
\* axes[i], computed for the axes that are tested only
RECURSIVE BestAxis(_, _, _, _, _)
BestAxis(axes, overlaps, i, best_overlap, best_case) ==
    IF i >= 15
    THEN [best_overlap |-> OverlapValue(best_overlap), best_case |-> best_case]
    ELSE IF ~AxisTested(axes[i + 1])
    THEN BestAxis(axes, overlaps, i + 1, best_overlap, best_case)
    ELSE IF OverlapLt(overlaps[i + 1], best_overlap)
    THEN BestAxis(axes, overlaps, i + 1, overlaps[i + 1], i)
    ELSE BestAxis(axes, overlaps, i + 1, best_overlap, best_case)

\* the overlaps of the axes of a pair of cuboids, Real::MAX for a skipped axis
AxisOverlaps(cuboid_a, transform_a, cuboid_b, transform_b) ==
    [k \in 1..15 |->
        IF AxisTested(Axes(transform_a, transform_b)[k])
        THEN ScaledOverlap(cuboid_a, transform_a, cuboid_b, transform_b,
                           Axes(transform_a, transform_b)[k])
        ELSE MaxOverlap]

\* fill_point_face_cuboid_cuboid: the contact it pushes
FillPointFaceNormal(transform_a, to_center, normal_index) ==
    IF RGt(Dot(to_center, GetAxisVector(transform_a, normal_index)), RZero)
    THEN VNeg(GetAxisVector(transform_a, normal_index))
    ELSE GetAxisVector(transform_a, normal_index)

FillPointFaceVertex(other, transform_b, normal) ==
    Vec(IF RLt(Dot(GetXAxis(transform_b), normal), RZero)
        THEN RNeg(other.half_size.x) ELSE other.half_size.x,
        IF RLt(Dot(GetYAxis(transform_b), normal), RZero)
        THEN RNeg(other.half_size.y) ELSE other.half_size.y,
        IF RLt(Dot(GetZAxis(transform_b), normal), RZero)
        THEN RNeg(other.half_size.z) ELSE other.half_size.z)

FillPointFaceCuboidCuboid(transform_a, other, transform_b, to_center, data, normal_index, overlap) ==
    Contact(data.body_a, data.body_b,
            Transform(transform_b,
                FillPointFaceVertex(other, transform_b,
                    FillPointFaceNormal(transform_a, to_center, normal_index))),
            FillPointFaceNormal(transform_a, to_center, normal_index),
            overlap)

\* the edge-edge arm: the axis, pointed by the sign of to_center . axis
EdgeAxis(transform_a, transform_b, to_center, axis_index_a, axis_index_b) ==
    LET axis == Normalized(Cross(GetAxisVector(transform_a, axis_index_a),
                                 GetAxisVector(transform_b, axis_index_b)))
    IN  IF RGt(Dot(to_center, axis), RZero) THEN VNeg(axis) ELSE axis

\* edge_point_a after the loop over its three components, from component i on
RECURSIVE EdgePointA(_, _, _, _, _)
EdgePointA(point, transform_a, axis, axis_index_a, i) ==
    IF i >= 3 THEN point
    ELSE EdgePointA(
            IF i = axis_index_a THEN VecSet(point, i, RZero)
            ELSE IF RGt(Dot(GetAxisVector(transform_a, i), axis), RZero)
            THEN VecSet(point, i, RNeg(VecGet(point, i)))
            ELSE point,
            transform_a, axis, axis_index_a, i + 1)

RECURSIVE EdgePointB(_, _, _, _, _)
EdgePointB(point, transform_b, axis, axis_index_b, i) ==
    IF i >= 3 THEN point
    ELSE EdgePointB(
            IF i = axis_index_b THEN VecSet(point, i, RZero)
            ELSE IF RLt(Dot(GetAxisVector(transform_b, i), axis), RZero)
            THEN VecSet(point, i, RNeg(VecGet(point, i)))
            ELSE point,
            transform_b, axis, axis_index_b, i + 1)

EdgeEdgeContact(cuboid_a, transform_a, cuboid_b, transform_b, to_center, data, best_case, best_overlap) ==
    LET axis_index_a == (best_case - 6) \div 3
        axis_index_b == (best_case - 6) % 3
        axis == EdgeAxis(transform_a, transform_b, to_center, axis_index_a, axis_index_b)
    IN  Contact(data.body_a, data.body_b,
            CuboidEdgeEdgeContactPoint(
                GetAxisVector(transform_a, axis_index_a),
                Transform(transform_a,
                    EdgePointA(cuboid_a.half_size, transform_a, axis, axis_index_a, 0)),
                GetAxisVector(transform_b, axis_index_b),
                Transform(transform_b,
                    EdgePointB(cuboid_b.half_size, transform_b, axis, axis_index_b, 0))),
            axis, best_overlap)

\* the match on best_case: data.contacts after it, and whether it panicked
\* (assert_ne!(best_case, usize::MAX), and unreachable!() for index 14)
MatchBestCase(cuboid_a, transform_a, cuboid_b, transform_b, data, best) ==
    IF best.best_case = NoCase
    THEN [contacts |-> data.contacts, failed |-> TRUE]
    ELSE IF best.best_case < 3
    THEN [contacts |-> Append(data.contacts,
              FillPointFaceCuboidCuboid(transform_a, cuboid_b, transform_b,
                  ToCenter(transform_a, transform_b), data,
                  best.best_case, best.best_overlap)),
          failed |-> FALSE]
    ELSE IF best.best_case < 6
    THEN [contacts |-> Append(data.contacts,
              FillPointFaceCuboidCuboid(transform_b, cuboid_a, transform_a,
                  VScale(ToCenter(transform_a, transform_b), R(-1)), data,
                  best.best_case - 3, best.best_overlap)),
          failed |-> FALSE]
    ELSE IF best.best_case < 14
    THEN [contacts |-> Append(data.contacts,
              EdgeEdgeContact(cuboid_a, transform_a, cuboid_b, transform_b,
                  ToCenter(transform_a, transform_b), data,
                  best.best_case, best.best_overlap)),
          failed |-> FALSE]
    ELSE [contacts |-> data.contacts, failed |-> TRUE]

\* algo::cuboid_and_cuboid
CuboidAndCuboid(cuboid_a, transform_a, cuboid_b, transform_b, data) ==
    MatchBestCase(cuboid_a, transform_a, cuboid_b, transform_b, data,
        BestAxis(Axes(transform_a, transform_b),
                 AxisOverlaps(cuboid_a, transform_a, cuboid_b, transform_b),
                 0, MaxOverlap, NoCase))

\* the Sphere and Plane primitives
SpherePrimitive(radius) == [radius |-> radius]
Plane(normal, offset) == [normal |-> normal, offset |-> offset]

\* data.contacts.push(contact)
Push(data, contact) == [data EXCEPT !.contacts = Append(data.contacts, contact)]

\* sphere_and_sphere(sphere_a, &transform_a, sphere_b, &transform_b, data)
SphereAndSphere(sphere_a, transform_a, sphere_b, transform_b, data) ==
    LET position_a == GetPosition(transform_a)
        position_b == GetPosition(transform_b)
        midline == VSub(position_a, position_b)
        distance == Magnitude(midline)
    IN  IF RLe(distance, RZero) \/ RGt(distance, RAdd(sphere_a.radius, sphere_b.radius))
        THEN data
        ELSE Push(data, Contact(data.body_a, data.body_b,
                                VAdd(position_a, VScale(midline, RHalf)),
                                VDivS(midline, distance),
                                RSub(RAdd(sphere_a.radius, sphere_b.radius), distance)))

\* Vec3::component_product
ComponentProduct(a, b) == Vec(RMul(a.x, b.x), RMul(a.y, b.y), RMul(a.z, b.z))

\* static MULTS of cuboid_and_half_space
MULTS ==
    <<VecI(1, 1, 1), VecI(-1, 1, 1), VecI(1, -1, 1), VecI(-1, -1, 1),
      VecI(1, 1, -1), VecI(-1, 1, -1), VecI(1, -1, -1), VecI(-1, -1, -1)>>

\* the body of the loop over MULTS with the vertex required to lie strictly
\* below the plane
VertexContactBelow(cuboid, cuboid_transform, plane, data, mult) ==
    LET vertex_pos == Transform(cuboid_transform, ComponentProduct(cuboid.half_size, mult))
        vertex_distance == Dot(vertex_pos, plane.normal)
    IN  IF RLt(vertex_distance, plane.offset)
        THEN Push(data, Contact(data.body_a, data.body_b,
                                VAdd(VScale(plane.normal,
                                            RSub(vertex_distance, plane.offset)),
                                     vertex_pos),
                                plane.normal,
                                RSub(plane.offset, vertex_distance)))
        ELSE data

\* the body of the loop over MULTS in cuboid_and_half_space
VertexContact(cuboid, cuboid_transform, plane, data, mult) ==
    LET vertex_pos == Transform(cuboid_transform, ComponentProduct(cuboid.half_size, mult))
        vertex_distance == Dot(vertex_pos, plane.normal)
    IN  IF RLe(vertex_distance, plane.offset)
        THEN Push(data, Contact(data.body_a, data.body_b,
                                VAdd(VScale(plane.normal,
                                            RSub(vertex_distance, plane.offset)),
                                     vertex_pos),
                                plane.normal,
                                RSub(plane.offset, vertex_distance)))
        ELSE data

\* for mult in MULTS { .. }, from MULTS[k - 1] on
RECURSIVE VertexLoop(_, _, _, _, _)
VertexLoop(cuboid, cuboid_transform, plane, data, k) ==
    IF k > Len(MULTS) THEN data
    ELSE VertexLoop(cuboid, cuboid_transform, plane,
                    VertexContact(cuboid, cuboid_transform, plane, data, MULTS[k]), k + 1)

\* cuboid_and_half_space(cuboid, &cuboid_transform, plane, data)
CuboidAndHalfSpace(cuboid, cuboid_transform, plane, data) ==
    IF RGt(RSub(Dot(GetPosition(cuboid_transform), plane.normal),
                TransformCuboidToAxis(cuboid, cuboid_transform, plane.normal)),
           plane.offset)
    THEN data
    ELSE VertexLoop(cuboid, cuboid_transform, plane, data, 1)

(***************************************************************************)
(* Quat, Mat3 and RigidBody.  A Mat3 is the tuple of its 9 entries in row  *)
(* order, data[i] of the code is data[i + 1] here.                         *)
(***************************************************************************)
Quat(r, i, j, k) == [r |-> r, i |-> i, j |-> j, k |-> k]
QuatIdentity == Quat(ROne, RZero, RZero, RZero)

QuatSquaredMagnitude(q) ==
    RAdd(RAdd(RAdd(RMul(q.r, q.r), RMul(q.i, q.i)), RMul(q.j, q.j)), RMul(q.k, q.k))

QuatScale(q, s) == Quat(RMul(q.r, s), RMul(q.i, s), RMul(q.j, s), RMul(q.k, s))

\* Quat::normalized
QuatNormalized(q) ==
    IF QuatSquaredMagnitude(q) = RZero THEN QuatIdentity
    ELSE QuatScale(q, RDiv(ROne, RSqrt(QuatSquaredMagnitude(q))))

\* impl Mul<Quat> for Quat
QuatMul(a, b) ==
    Quat(RSub(RSub(RSub(RMul(a.r, b.r), RMul(a.i, b.i)), RMul(a.j, b.j)), RMul(a.k, b.k)),
         RSub(RAdd(RAdd(RMul(a.r, b.i), RMul(a.i, b.r)), RMul(a.j, b.k)), RMul(a.k, b.j)),
         RSub(RAdd(RAdd(RMul(a.r, b.j), RMul(a.j, b.r)), RMul(a.k, b.i)), RMul(a.i, b.k)),
         RSub(RAdd(RAdd(RMul(a.r, b.k), RMul(a.k, b.r)), RMul(a.i, b.j)), RMul(a.j, b.i)))

\* Quat::add_scaled_vector
AddScaledVector(q, vector, scale) ==
    Quat(RAdd(q.r, RMul(QuatMul(Quat(RZero, RMul(vector.x, scale), RMul(vector.y, scale),
                                     RMul(vector.z, scale)), q).r, RHalf)),
         RAdd(q.i, RMul(QuatMul(Quat(RZero, RMul(vector.x, scale), RMul(vector.y, scale),
                                     RMul(vector.z, scale)), q).i, RHalf)),
         RAdd(q.j, RMul(QuatMul(Quat(RZero, RMul(vector.x, scale), RMul(vector.y, scale),
                                     RMul(vector.z, scale)), q).j, RHalf)),
         RAdd(q.k, RMul(QuatMul(Quat(RZero, RMul(vector.x, scale), RMul(vector.y, scale),
                                     RMul(vector.z, scale)), q).k, RHalf)))

RTwo == R(2)

\* Mat4::from_orientation_and_position
FromOrientationAndPosition(o, position) ==
    <<RSub(RSub(ROne, RMul(RTwo, RMul(o.j, o.j))), RMul(RTwo, RMul(o.k, o.k))),
      RSub(RMul(RTwo, RMul(o.i, o.j)), RMul(RTwo, RMul(o.r, o.k))),
      RAdd(RMul(RTwo, RMul(o.i, o.k)), RMul(RTwo, RMul(o.r, o.j))),
      position.x,
      RAdd(RMul(RTwo, RMul(o.i, o.j)), RMul(RTwo, RMul(o.r, o.k))),
      RSub(RSub(ROne, RMul(RTwo, RMul(o.i, o.i))), RMul(RTwo, RMul(o.k, o.k))),
      RSub(RMul(RTwo, RMul(o.j, o.k)), RMul(RTwo, RMul(o.r, o.i))),
      position.y,
      RSub(RMul(RTwo, RMul(o.i, o.k)), RMul(RTwo, RMul(o.r, o.j))),
      RAdd(RMul(RTwo, RMul(o.j, o.k)), RMul(RTwo, RMul(o.r, o.i))),
      RSub(RSub(ROne, RMul(RTwo, RMul(o.i, o.i))), RMul(RTwo, RMul(o.j, o.j))),
      position.z>>

Mat3Identity == <<ROne, RZero, RZero, RZero, ROne, RZero, RZero, RZero, ROne>>
Mat4Identity == <<ROne, RZero, RZero, RZero, RZero, ROne, RZero, RZero, RZero, RZero, ROne, RZero>>

\* Mat3::transform
Mat3Transform(m, v) ==
    Vec(RAdd(RAdd(RMul(v.x, m[1]), RMul(v.y, m[2])), RMul(v.z, m[3])),
        RAdd(RAdd(RMul(v.x, m[4]), RMul(v.y, m[5])), RMul(v.z, m[6])),
        RAdd(RAdd(RMul(v.x, m[7]), RMul(v.y, m[8])), RMul(v.z, m[9])))

\* rotmat.data[r] * iit.data[c] + rotmat.data[r + 1] * iit.data[c + 3]
\*   + rotmat.data[r + 2] * iit.data[c + 6]: t4 .. t62
TensorT(iit, rotmat, r, c) ==
    RAdd(RAdd(RMul(rotmat[r + 1], iit[c + 1]), RMul(rotmat[r + 2], iit[c + 4])),
         RMul(rotmat[r + 3], iit[c + 7]))

\* one entry of the result: t[r][0] * rotmat.data[q] + t[r][1] * rotmat.data[q + 1]
\*   + t[r][2] * rotmat.data[q + 2]
TensorEntry(iit, rotmat, r, q) ==
    RAdd(RAdd(RMul(TensorT(iit, rotmat, r, 0), rotmat[q + 1]),
              RMul(TensorT(iit, rotmat, r, 1), rotmat[q + 2])),
         RMul(TensorT(iit, rotmat, r, 2), rotmat[q + 3]))

\* inverse_inertia_tensor_to_world_coords(iit, rotmat)
InverseInertiaTensorToWorldCoords(iit, rotmat) ==
    <<TensorEntry(iit, rotmat, 0, 0), TensorEntry(iit, rotmat, 0, 4),
      TensorEntry(iit, rotmat, 0, 8),
      TensorEntry(iit, rotmat, 4, 0), TensorEntry(iit, rotmat, 4, 4),
      TensorEntry(iit, rotmat, 4, 8),
      TensorEntry(iit, rotmat, 8, 0), TensorEntry(iit, rotmat, 8, 4),
      TensorEntry(iit, rotmat, 8, 8)>>

\* RigidBody::new(mass) followed by the with_* builders for the fields given;
\* the dampings of the model are 1, where new sets 0.99
RigidBody(inverse_mass, position, orientation, velocity, inverse_inertia_tensor) ==
    [inverse_mass |-> inverse_mass, damping |-> ROne, angular_damping |-> ROne,
     position |-> position, orientation |-> orientation,
     velocity |-> velocity, angular_velocity |-> VZero,
     acceleration |-> VZero, angular_acceleration |-> VZero,
     inverse_inertia_tensor |-> inverse_inertia_tensor,
     transform_matrix |-> Mat4Identity,
     inverse_inertia_tensor_world |-> Mat3Identity,
     force_accum |-> VZero, torque_accum |-> VZero,
     last_frame_acceleration |-> VZero]

\* RigidBody::update_derived_data: the rotated tensor is assigned to
\* self.inverse_inertia_tensor
UpdateDerivedData(b) ==
    [b EXCEPT
       !.orientation = QuatNormalized(b.orientation),
       !.transform_matrix =
           FromOrientationAndPosition(QuatNormalized(b.orientation), b.position),
       !.inverse_inertia_tensor =
           InverseInertiaTensorToWorldCoords(b.inverse_inertia_tensor,
               FromOrientationAndPosition(QuatNormalized(b.orientation), b.position))]

\* RigidBody::clear_accumelators
ClearAccumelators(b) == [b EXCEPT !.force_accum = VZero, !.torque_accum = VZero]

\* RigidBody::integrate, up to the call of update_derived_data
IntegrateState(b, duration) ==
    [b EXCEPT
       !.last_frame_acceleration =
           VAdd(b.acceleration, VScale(b.force_accum, b.inverse_mass)),
       !.velocity =
           VAdd(VScale(b.velocity, Powf(b.damping, duration)),
                VScale(VAdd(b.acceleration, VScale(b.force_accum, b.inverse_mass)),
                       duration)),
       !.angular_velocity =
           VAdd(VScale(b.angular_velocity, Powf(b.angular_damping, duration)),
                VScale(VAdd(b.angular_acceleration,
                            Mat3Transform(b.inverse_inertia_tensor_world, b.torque_accum)),
                       duration)),
       !.position =
           VAdd(b.position,
                VScale(VAdd(VScale(b.velocity, Powf(b.damping, duration)),
                            VScale(VAdd(b.acceleration,
                                        VScale(b.force_accum, b.inverse_mass)),
                                   duration)),
                       duration)),
       !.orientation =
           AddScaledVector(b.orientation,
               VAdd(VScale(b.angular_velocity, Powf(b.angular_damping, duration)),
                    VScale(VAdd(b.angular_acceleration,
                                Mat3Transform(b.inverse_inertia_tensor_world,
                                              b.torque_accum)),
                           duration)),
               duration)]

\* RigidBody::integrate
RigidBodyIntegrate(b, duration) ==
    ClearAccumelators(UpdateDerivedData(IntegrateState(b, duration)))

(***************************************************************************)
(* Arenas: ParticleSet and RigidBodySet wrap a SlotMap.  The SlotMap is a  *)
(* sequence of slots, each with a generation tag and a value, and a list   *)
(* of the vacant slots; a handle is a slot index with the generation the   *)
(* slot had when the handle was returned.                                  *)
(***************************************************************************)
None == "None"
Handle(idx, generation) == [idx |-> idx, generation |-> generation]
SlotMapNew == [slots |-> <<>>, free |-> <<>>]

\* SlotMap::insert: a vacant slot is used again under its next generation
SlotMapInsert(a, value) ==
    IF a.free = <<>>
    THEN [arena |-> [slots |-> Append(a.slots, [generation |-> 1, value |-> value]),
                     free |-> <<>>],
          key |-> Handle(Len(a.slots) + 1, 1)]
    ELSE [arena |-> [slots |-> [a.slots EXCEPT ![Head(a.free)] =
                                   [generation |-> @.generation + 1, value |-> value]],
                     free |-> Tail(a.free)],
          key |-> Handle(Head(a.free), a.slots[Head(a.free)].generation + 1)]

\* SlotMap::contains_key
SlotMapContainsKey(a, key) ==
    /\ key.idx \in 1..Len(a.slots)
    /\ a.slots[key.idx].generation = key.generation
    /\ a.slots[key.idx].value # None

\* SlotMap::get
SlotMapGet(a, key) == IF SlotMapContainsKey(a, key) THEN a.slots[key.idx].value ELSE None

\* SlotMap::remove
SlotMapRemove(a, key) ==
    IF SlotMapContainsKey(a, key)
    THEN [arena |-> [slots |-> [a.slots EXCEPT ![key.idx].value = None],
                     free |-> <<key.idx>> \o a.free],
          value |-> a.slots[key.idx].value]
    ELSE [arena |-> a, value |-> None]

\* Option<[&mut V; N]>
NoRefs == [some |-> FALSE, refs |-> <<>>]
SomeRefs(refs) == [some |-> TRUE, refs |-> refs]

\* SlotMap::get_disjoint_mut: None when a key is missing or given twice
SlotMapGetDisjointMut(a, keys) ==
    IF \/ \E i \in DOMAIN keys : ~SlotMapContainsKey(a, keys[i])
       \/ \E i, j \in DOMAIN keys : i # j /\ keys[i] = keys[j]
    THEN NoRefs
    ELSE SomeRefs([i \in DOMAIN keys |-> a.slots[keys[i].idx].value])

\* ParticleSet::insert, RigidBodySet::insert
ArenaInsert(a, value) == SlotMapInsert(a, value)

\* a remove that hands the value out and leaves it in the arena
ArenaRemoveKeeps(a, key) == [arena |-> a, value |-> SlotMapGet(a, key)]

\* ParticleSet::remove, RigidBodySet::remove
ArenaRemove(a, key) == SlotMapRemove(a, key)

\* ParticleSet::get, RigidBodySet::get
ArenaGet(a, key) == SlotMapGet(a, key)

\* ParticleSet::contains, RigidBodySet::contains
ArenaContains(a, key) == SlotMapContainsKey(a, key)

\* a get_disjoint_mut that looks each key up on its own
ArenaGetEach(a, keys) ==
    IF \E i \in DOMAIN keys : ~SlotMapContainsKey(a, keys[i]) THEN NoRefs
    ELSE SomeRefs([i \in DOMAIN keys |-> SlotMapGet(a, keys[i])])

\* ParticleSet::get_disjoint_mut, RigidBodySet::get_disjoint_mut
ArenaGetDisjointMut(a, keys) == SlotMapGetDisjointMut(a, keys)

(***************************************************************************)
(* State                                                                   *)
(***************************************************************************)
VARIABLES
    nodes,      \* Bvh.nodes: the live keys of the arena and their nodes
    root,       \* Bvh.root
    nextKey,    \* the key the node arena hands out next
    bvhFailed,  \* a Bvh operation panicked
    bodyPos,    \* RigidBodySet: the position of each body
    inserted,   \* the bodies handed to Bvh::new / Bvh::insert so far
    removed,    \* the bodies for which remove_body returned Some
    potential,  \* the Vec<PotentialContact> the last generate_potential_contacts filled
    moves,      \* how many times a body was moved
    particles,        \* ParticleSet: particle handle -> Particle
    contacts,         \* the contact array (the pipeline's buffer, or resolve's argument)
    num_contacts,     \* the length of the slice resolve works on
    iterations,       \* ParticleContactResolver.iterations
    iterations_used,  \* ParticleContactResolver.iterations_used
    pc,               \* where the call in progress stands
    idx,              \* resolve: the index i of the for loop
    max,              \* resolve: max
    max_idx,          \* resolve: max_idx
    lastResolved,     \* the index of the contact resolve_contact ran on last, -1 before
    system,                \* which pipeline type is modelled
    contacts_used,         \* ParticlePipeline.contacts_used; used_contacts of ParticlePhysicsSystem::step
    calculate_iterations,  \* the pipeline's calculate_iterations
    pipeFailed,            \* a pipeline call panicked
    steps,                 \* how many steps the pipeline has taken
    cgs,                   \* ContactGeneratorSet: the generators, in the order generators() yields them
    force_registry,        \* ParticlePhysicsSystem.force_registry: Vec<ParticleForceRegistration>
    added_since_step,      \* history: the contacts generate_contacts added since the last step
    unregistered,          \* what the last unregister_force call returned, "none" before it
    data_contacts,  \* CollisionData.contacts: the Vec<Contact> the narrow phase pushes to
    narrowFailed,   \* a narrow-phase call panicked
    cuboids,        \* the arguments of the last narrow-phase call, <<>> before it
    rigid_body,     \* a RigidBody
    bodyCalls,      \* how many calls were made on the body
    arena,          \* a ParticleSet or RigidBodySet: its slots and free list
    issued,         \* the handles insert has returned, in order
    removedKeys,    \* the handles remove was called with and returned a value for
    disjoint,       \* the last get_disjoint_mut call: its keys and what it returned
    sub_particle,   \* a Particle that integrate is called on
    sub_start,      \* that particle before the first call
    sub_total,      \* the time span T the calls cover
    sub_count,      \* how many calls cover it
    sub_calls       \* how many of them were made

bvhVars == <<nodes, root, nextKey, bvhFailed, bodyPos, inserted, removed, potential, moves>>
resolverVars == <<particles, contacts, num_contacts, iterations, iterations_used,
                  pc, idx, max, max_idx, lastResolved>>
pipelineVars == <<system, contacts_used, calculate_iterations, pipeFailed, steps, cgs,
                  force_registry, added_since_step, unregistered>>
narrowVars == <<data_contacts, narrowFailed, cuboids>>
bodyVars == <<rigid_body, bodyCalls>>
arenaVars == <<arena, issued, removedKeys, disjoint>>
substepVars == <<sub_particle, sub_start, sub_total, sub_count, sub_calls>>
vars == <<bvhVars, resolverVars, pipelineVars, narrowVars, bodyVars, arenaVars, substepVars>>

MaxBodies == 3
MaxMoves == 1
Bodies == 1..MaxBodies
\* centres lie on the X axis, so every distance the code takes a root of is rational
Positions == {VecI(-5, 0, 0), VecI(0, 0, 0), VecI(2, 0, 0)}
\* the volumes handed to new and insert: two that touch, one far away, one
\* that contains another
Volumes ==
    {Sphere(VecI(-5, 0, 0), R(1)), Sphere(VecI(0, 0, 0), R(1)),
     Sphere(VecI(2, 0, 0), R(1)), Sphere(VecI(0, 0, 0), R(2))}

Tree == [nodes |-> nodes, root |-> root, next |-> nextKey, failed |-> bvhFailed]
SetTree(t) ==
    /\ nodes' = t.nodes
    /\ root' = t.root
    /\ nextKey' = t.next
    /\ bvhFailed' = t.failed

(***************************************************************************)
(* ParticleContactResolver::resolve, one step of the model per loop test    *)
(* and per pass through the body of the for loop.  pc is "idle" outside a  *)
(* call, "while" at the test of the while loop, "for" at the head of the   *)
(* for loop, "done" after resolve returned.                                *)
(***************************************************************************)
MaxContacts == 2
MaxIterations == 2
Duration == ROne

\* the values of the resolver's variables while no particle system is modelled
ResolverUnused ==
    /\ particles = <<>>
    /\ contacts = <<>>
    /\ num_contacts = 0
    /\ iterations = 0
    /\ iterations_used = 0
    /\ pc = "idle"
    /\ idx = 0
    /\ max = RealMax
    /\ max_idx = 0
    /\ lastResolved = -1

\* the values of the pipeline's variables while no pipeline is modelled
PipelineUnused ==
    /\ system = "none"
    /\ contacts_used = 0
    /\ calculate_iterations = FALSE
    /\ pipeFailed = FALSE
    /\ steps = 0
    /\ cgs = <<>>
    /\ force_registry = <<>>
    /\ added_since_step = 0
    /\ unregistered = "none"

\* the values of the rigid body's variables while it is not modelled
SubstepUnused ==
    /\ sub_particle = <<>>
    /\ sub_start = <<>>
    /\ sub_total = RZero
    /\ sub_count = 0
    /\ sub_calls = 0

BodyUnused ==
    /\ rigid_body = <<>>
    /\ bodyCalls = 0

\* the values of the arena's variables while it is not modelled
ArenaUnused ==
    /\ arena = <<>>
    /\ issued = <<>>
    /\ removedKeys = {}
    /\ disjoint = <<>>

\* the values of the narrow phase's variables while it is not modelled
NarrowUnused ==
    /\ data_contacts = <<>>
    /\ narrowFailed = FALSE
    /\ cuboids = <<>>

\* the values of the Bvh's variables while no Bvh is modelled
BvhUnused ==
    /\ nodes = <<>>
    /\ root = NoNode
    /\ nextKey = 1
    /\ bvhFailed = FALSE
    /\ bodyPos = <<>>
    /\ inserted = {}
    /\ removed = {}
    /\ potential = <<>>
    /\ moves = 0

\* resolve is entered: self.iterations_used = 0
ResolveEnter(n) ==
    /\ num_contacts' = n
    /\ iterations_used' = 0
    /\ pc' = "while"
    /\ lastResolved' = -1
    /\ idx' = 0
    /\ max' = RealMax
    /\ max_idx' = n

\* while self.iterations_used < self.iterations: the loop is entered
ResolveWhileEnter ==
    /\ pc = "while"
    /\ iterations_used < iterations
    /\ max' = RealMax
    /\ max_idx' = num_contacts
    /\ idx' = 0
    /\ pc' = "for"
    /\ UNCHANGED <<particles, contacts, num_contacts, iterations, iterations_used,
                   lastResolved>>
    /\ UNCHANGED <<bvhVars, pipelineVars, narrowVars, bodyVars, arenaVars, substepVars>>

\* while self.iterations_used < self.iterations: the test fails, resolve returns
ResolveWhileExit ==
    /\ pc = "while"
    /\ ~(iterations_used < iterations)
    /\ pc' = "done"
    /\ UNCHANGED <<particles, contacts, num_contacts, iterations, iterations_used,
                   idx, max, max_idx, lastResolved>>
    /\ UNCHANGED <<bvhVars, pipelineVars, narrowVars, bodyVars, arenaVars, substepVars>>

\* the for loop has run out of contacts: back to the test of the while loop
ResolveForExhausted ==
    /\ pc = "for"
    /\ idx >= num_contacts
    /\ pc' = "while"
    /\ UNCHANGED <<particles, contacts, num_contacts, iterations, iterations_used,
                   idx, max, max_idx, lastResolved>>
    /\ UNCHANGED <<bvhVars, pipelineVars, narrowVars, bodyVars, arenaVars, substepVars>>

\* the contact the for loop stands at, and the values the body computes for it
CurrentContact == contacts[idx + 1]
CurrentSepVel == CalculateSeperatingVelocity(particles, CurrentContact)
CurrentSelected == Selected(CurrentSepVel, max, CurrentContact)
MaxIdxAfterTest == IF CurrentSelected THEN idx ELSE max_idx

\* the body of the for loop reaches `break`: max_idx == num_contacts
ResolveForBreak ==
    /\ pc = "for"
    /\ idx < num_contacts
    /\ MaxIdxAfterTest = num_contacts
    /\ pc' = "while"
    /\ UNCHANGED <<particles, contacts, num_contacts, iterations, iterations_used,
                   idx, max, max_idx, lastResolved>>
    /\ UNCHANGED <<bvhVars, pipelineVars, narrowVars, bodyVars, arenaVars, substepVars>>

\* the body of the for loop runs to its end: contacts[i] is resolved
ResolveForResolve ==
    /\ pc = "for"
    /\ idx < num_contacts
    /\ MaxIdxAfterTest # num_contacts
    /\ max' = IF CurrentSelected THEN CurrentSepVel ELSE max
    /\ max_idx' = MaxIdxAfterTest
    /\ particles' = ResolveContactParticles(particles, CurrentContact, Duration)
    /\ contacts' = [contacts EXCEPT ![idx + 1] =
                       ResolveContactData(particles, CurrentContact, Duration)]
    /\ lastResolved' = idx
    /\ iterations_used' = iterations_used + 1
    /\ idx' = idx + 1
    /\ UNCHANGED <<num_contacts, iterations, pc>>
    /\ UNCHANGED <<bvhVars, pipelineVars, narrowVars, bodyVars, arenaVars, substepVars>>

ResolveStep ==
    \/ ResolveWhileEnter
    \/ ResolveWhileExit
    \/ ResolveForExhausted
    \/ ResolveForBreak
    \/ ResolveForResolve

(***************************************************************************)
(* resolve called on its own, on a contact array and a particle set drawn  *)
(* by the call.                                                            *)
(***************************************************************************)
\* two particles on the X axis, particle 1 left of particle 2
ResolverParticles ==
    {<<Particle(VecI(-1, 0, 0), v1, a1, ROne, m1), Particle(VecI(1, 0, 0), v2, VZero, ROne, m2)>> :
        v1 \in {VecI(1, 0, 0), VecI(0, -1, 0), VecI(-1, 1, 0)},
        a1 \in {VZero, VecI(0, -1, 0)},
        m1 \in {R(1), Frac(1, 2)},
        v2 \in {VecI(-1, 0, 0), VZero},
        m2 \in {R(1), R(0)}}

\* contacts with unit normals: between the two particles, and with the ground
ContactPool ==
    {ParticleContact(1, 2, R(1), VecI(-1, 0, 0), R(0)),
     ParticleContact(1, 2, R(0), VecI(-1, 0, 0), R(1)),
     ParticleContact(1, NoParticle, Frac(1, 2), VecI(0, 1, 0), R(1)),
     ParticleContact(2, NoParticle, R(1), VecI(0, 1, 0), R(0))}

ContactLists == UNION {[1..n -> ContactPool] : n \in 1..MaxContacts}

\* ParticleContactResolver::new(iterations)
InitResolver ==
    /\ BvhUnused
    /\ SubstepUnused
    /\ PipelineUnused
    /\ NarrowUnused
    /\ BodyUnused
    /\ ArenaUnused
    /\ particles = <<>>
    /\ contacts = <<>>
    /\ iterations \in 0..MaxIterations
    /\ num_contacts = 0
    /\ iterations_used = 0
    /\ pc = "idle"
    /\ idx = 0
    /\ max = RealMax
    /\ max_idx = 0
    /\ lastResolved = -1

\* resolver.resolve(contacts, particles, duration): the call draws its arguments
ResolveCall ==
    /\ system = "none"
    /\ pc = "idle"
    /\ \E ps \in ResolverParticles, cs \in ContactLists :
        /\ particles' = ps
        /\ contacts' = cs
        /\ ResolveEnter(Len(cs))
    /\ UNCHANGED iterations
    /\ UNCHANGED <<bvhVars, pipelineVars, narrowVars, bodyVars, arenaVars, substepVars>>

NextResolver ==
    \/ ResolveCall
    \/ ResolveStep

\* The position of a call in progress moves.  While resolve runs, exactly the
\* steps of ResolveStep are of this shape, and one of them is enabled, so weak
\* fairness of ResolveAdvances says that the thread is not stopped inside resolve.
ResolveAdvances ==
    /\ pc \in {"while", "for"}
    /\ \E p \in {"while", "for", "done"}, i \in 0..MaxContacts : pc' = p /\ idx' = i

SpecResolver == InitResolver /\ [][NextResolver]_vars /\ WF_<<pc, idx>>(ResolveAdvances)

(***************************************************************************)
(* ParticlePhysicsSystem (pphysics_system.rs) and ParticlePipeline          *)
(* (ppipeline.rs).  The particles stand on the Y axis, above the ground.   *)
(* Forces are registered by RegisterForce; none is registered at first.    *)
(***************************************************************************)
MaxSteps == 2

PipelineParticles ==
    {<<Particle(VecI(0, y1, 0), v1, VecI(0, -1, 0), ROne, R(1)),
       Particle(VecI(0, 4, 0), v2, VZero, ROne, m2)>> :
        y1 \in {1, 2},
        v1 \in {VecI(0, -1, 0), VZero},
        v2 \in {VZero, VecI(0, 1, 0)},
        m2 \in {R(1), R(0)}}

Ground == ParticleGroundCollider(1, R(1), Frac(1, 2))
Cable == ParticleCable(1, 2, R(3), R(0))
ContactGenerators == {Ground, Cable}

\* ForceGeneratorSet: one spring anchored above the particles
Fgs == <<ParticleAnchoredSpring(VecI(0, 10, 0), ROne, R(8))>>
MaxRegistrations == 1
GeneratorSets == {<<>>, <<Ground>>, <<Ground, Cable>>, <<Cable, Ground>>}

\* ParticlePhysicsSystem::new(max_contacts, iterations) and
\* ParticlePipeline::new(max_contacts, iterations)
InitPipeline ==
    /\ BvhUnused
    /\ SubstepUnused
    /\ NarrowUnused
    /\ BodyUnused
    /\ ArenaUnused
    /\ system \in {"ParticlePhysicsSystem", "ParticlePipeline", "particle::ParticlePhysicsSystem"}
    /\ force_registry = <<>>
    /\ added_since_step = 0
    /\ unregistered = "none"
    /\ \E max_contacts \in 0..MaxContacts :
          contacts = [i \in 1..max_contacts |-> DefaultContact]
    /\ contacts_used = 0
    /\ iterations \in 0..MaxIterations
    /\ calculate_iterations = (iterations = 0)
    /\ pipeFailed = FALSE
    /\ steps = 0
    /\ particles \in PipelineParticles
    /\ cgs \in (IF system = "ParticlePhysicsSystem" THEN GeneratorSets ELSE {<<>>})
    /\ num_contacts = 0
    /\ iterations_used = 0
    /\ pc = "idle"
    /\ idx = 0
    /\ max = RealMax
    /\ max_idx = 0
    /\ lastResolved = -1

\* step with the cap left as it was constructed
StepResolveKeepsCap(used) ==
    IF used > 0
    THEN /\ UNCHANGED iterations
         /\ ResolveEnter(used)
    ELSE UNCHANGED <<iterations, num_contacts, iterations_used, pc, idx, max, max_idx,
                     lastResolved>>

\* step, from the contacts on: resolve is entered when contacts are in use
StepResolve(used) ==
    IF used > 0
    THEN /\ iterations' = IF calculate_iterations THEN 2 * used ELSE iterations
         /\ ResolveEnter(used)
    ELSE UNCHANGED <<iterations, num_contacts, iterations_used, pc, idx, max, max_idx,
                     lastResolved>>

\* ParticlePhysicsSystem::step, up to the point where resolve is entered
PhysicsSystemStep ==
    /\ system = "ParticlePhysicsSystem"
    /\ pc = "idle"
    /\ ~pipeFailed
    /\ steps < MaxSteps
    /\ steps' = steps + 1
    /\ \E ps \in {StepParticles(Fgs, force_registry, particles, Duration)} :
       \E gen \in {SystemGenerateContacts(cgs, contacts, ps)} :
          /\ particles' = ps
          /\ contacts' = gen.contacts
          /\ contacts_used' = gen.used
          /\ pipeFailed' = gen.failed
          /\ StepResolve(IF gen.failed THEN 0 ELSE gen.used)
    /\ UNCHANGED <<system, calculate_iterations, cgs, force_registry, added_since_step,
                   unregistered>>
    /\ UNCHANGED <<bvhVars, narrowVars, bodyVars, arenaVars, substepVars>>

\* ParticlePhysicsSystem::generate_contacts called on its own
PhysicsSystemGenerateContacts ==
    /\ system = "ParticlePhysicsSystem"
    /\ pc = "idle"
    /\ ~pipeFailed
    /\ \E gen \in {SystemGenerateContacts(cgs, contacts, particles)} :
          /\ contacts' = gen.contacts
          /\ contacts_used' = gen.used
          /\ pipeFailed' = gen.failed
    /\ UNCHANGED <<particles, num_contacts, iterations, iterations_used, pc, idx, max,
                   max_idx, lastResolved>>
    /\ UNCHANGED <<system, calculate_iterations, steps, cgs, force_registry, unregistered,
                   added_since_step>>
    /\ UNCHANGED <<bvhVars, narrowVars, bodyVars, arenaVars, substepVars>>

\* ParticlePipeline::step, up to the point where resolve is entered
PipelineStep ==
    /\ system = "ParticlePipeline"
    /\ pc = "idle"
    /\ ~pipeFailed
    /\ steps < MaxSteps
    /\ steps' = steps + 1
    /\ particles' = IntegrateAll(particles, Duration)
    /\ StepResolve(contacts_used)
    /\ added_since_step' = 0
    /\ UNCHANGED <<contacts, system, contacts_used, calculate_iterations, pipeFailed, cgs,
                   force_registry, unregistered>>
    /\ UNCHANGED <<bvhVars, narrowVars, bodyVars, arenaVars, substepVars>>

\* particle::ParticlePhysicsSystem::step (src/particle/system.rs), up to the
\* point where resolve is entered; its generators name their own targets
ParticleSystemStep ==
    /\ system = "particle::ParticlePhysicsSystem"
    /\ pc = "idle"
    /\ ~pipeFailed
    /\ steps < MaxSteps
    /\ steps' = steps + 1
    /\ particles' = StepParticles(Fgs, force_registry, particles, Duration)
    /\ StepResolve(contacts_used)
    /\ added_since_step' = 0
    /\ UNCHANGED <<contacts, system, contacts_used, calculate_iterations, pipeFailed, cgs,
                   force_registry, unregistered>>
    /\ UNCHANGED <<bvhVars, narrowVars, bodyVars, arenaVars, substepVars>>

\* ParticlePhysicsSystem::register_force(particle, fg); for
\* particle::ParticlePhysicsSystem, a generator with this target joins the set
RegisterForce(particle, fg) ==
    /\ system \in {"ParticlePhysicsSystem", "particle::ParticlePhysicsSystem"}
    /\ pc = "idle"
    /\ ~pipeFailed
    /\ Len(force_registry) < MaxRegistrations
    /\ force_registry' = Append(force_registry, [particle |-> particle, fg |-> fg])
    /\ UNCHANGED <<system, contacts_used, calculate_iterations, pipeFailed, steps, cgs,
                   added_since_step, unregistered>>
    /\ UNCHANGED <<bvhVars, resolverVars, narrowVars, bodyVars, arenaVars, substepVars>>

\* the registration unregister_force looks for
Registration(particle, fg) == [particle |-> particle, fg |-> fg]

\* force_registry.iter().position(|reg| reg.particle == particle && reg.fg == fg):
\* the index of the first match, 0 for None
Position(registry, reg) ==
    IF \E i \in 1..Len(registry) : registry[i] = reg
    THEN CHOOSE i \in 1..Len(registry) :
            registry[i] = reg /\ \A j \in 1..(i - 1) : registry[j] # reg
    ELSE 0

\* a removal that drops the last element whatever i is
SwapRemoveLast(registry, i) ==
    [j \in 1..(Len(registry) - 1) |-> registry[j]]

\* Vec::swap_remove(i): the last element takes the place of element i
SwapRemove(registry, i) ==
    [j \in 1..(Len(registry) - 1) |-> IF j = i THEN registry[Len(registry)] ELSE registry[j]]

\* unregister_force(particle, fg) of ParticlePhysicsSystem and of the
\* ParticlePipeline of pipeline.rs
UnregisterForce(particle, fg) ==
    /\ system \in {"ParticlePhysicsSystem", "pipeline::ParticlePipeline"}
    /\ pc = "idle"
    /\ ~pipeFailed
    /\ \E i \in {Position(force_registry, Registration(particle, fg))} :
          IF i = 0
          THEN /\ unregistered' = "false"
               /\ UNCHANGED force_registry
          ELSE /\ unregistered' = "true"
               /\ force_registry' = SwapRemove(force_registry, i)
    /\ UNCHANGED <<system, contacts_used, calculate_iterations, pipeFailed, steps, cgs,
                   added_since_step>>
    /\ UNCHANGED <<bvhVars, resolverVars, narrowVars, bodyVars, arenaVars, substepVars>>

\* generate_contacts(cg, particles) of ParticlePipeline and of
\* particle::ParticlePhysicsSystem
PipelineGenerateContacts(cg) ==
    /\ system \in {"ParticlePipeline", "particle::ParticlePhysicsSystem"}
    /\ pc = "idle"
    /\ ~pipeFailed
    /\ \E gen \in {PipelineGenerate(cg, contacts, contacts_used, particles)} :
          /\ contacts' = gen.contacts
          /\ contacts_used' = gen.used
          /\ pipeFailed' = gen.failed
          /\ added_since_step' = added_since_step + (gen.used - contacts_used)
    /\ UNCHANGED <<particles, num_contacts, iterations, iterations_used, pc, idx, max,
                   max_idx, lastResolved>>
    /\ UNCHANGED <<system, calculate_iterations, steps, cgs, force_registry, unregistered>>
    /\ UNCHANGED <<bvhVars, narrowVars, bodyVars, arenaVars, substepVars>>

\* start_frame(particles) of the three systems: the force accumulators are cleared
StartFrame ==
    /\ system # "none"
    /\ pc = "idle"
    /\ ~pipeFailed
    /\ particles' = [h \in DOMAIN particles |-> ClearAccumulator(particles[h])]
    /\ UNCHANGED <<contacts, num_contacts, iterations, iterations_used, pc, idx, max,
                   max_idx, lastResolved>>
    /\ UNCHANGED <<bvhVars, pipelineVars, narrowVars, bodyVars, arenaVars, substepVars>>

\* resolve has returned, and step returns with it
StepReturn ==
    /\ system # "none"
    /\ pc = "done"
    /\ pc' = "idle"
    /\ UNCHANGED <<particles, contacts, num_contacts, iterations, iterations_used, idx,
                   max, max_idx, lastResolved>>
    /\ UNCHANGED <<bvhVars, pipelineVars, narrowVars, bodyVars, arenaVars, substepVars>>

NextPipeline ==
    \/ PhysicsSystemStep
    \/ PhysicsSystemGenerateContacts
    \/ PipelineStep
    \/ ParticleSystemStep
    \/ \E particle \in 1..2, fg \in DOMAIN Fgs : RegisterForce(particle, fg)
    \/ \E particle \in 1..2, fg \in DOMAIN Fgs : UnregisterForce(particle, fg)
    \/ \E cg \in ContactGenerators : PipelineGenerateContacts(cg)
    \/ StartFrame
    \/ StepReturn
    \/ ResolveStep

SpecPipeline == InitPipeline /\ [][NextPipeline]_vars

(***************************************************************************)
(* The ParticlePipeline of pipeline.rs: a force registry and a step that   *)
(* deposits the registered forces and integrates.                          *)
(***************************************************************************)
MaxPipelineRegistrations == 3

\* ParticlePipeline::new()
InitForcePipeline ==
    /\ BvhUnused
    /\ SubstepUnused
    /\ NarrowUnused
    /\ BodyUnused
    /\ ArenaUnused
    /\ system = "pipeline::ParticlePipeline"
    /\ force_registry = <<>>
    /\ unregistered = "none"
    /\ added_since_step = 0
    /\ contacts_used = 0
    /\ calculate_iterations = FALSE
    /\ pipeFailed = FALSE
    /\ steps = 0
    /\ cgs = <<>>
    /\ particles \in PipelineParticles
    /\ contacts = <<>>
    /\ num_contacts = 0
    /\ iterations = 0
    /\ iterations_used = 0
    /\ pc = "idle"
    /\ idx = 0
    /\ max = RealMax
    /\ max_idx = 0
    /\ lastResolved = -1

\* ParticlePipeline::step(particles, fgs, duration) of pipeline.rs
ForcePipelineStep ==
    /\ system = "pipeline::ParticlePipeline"
    /\ steps < MaxSteps
    /\ steps' = steps + 1
    /\ particles' = StepParticles(Fgs, force_registry, particles, Duration)
    /\ UNCHANGED <<contacts, num_contacts, iterations, iterations_used, pc, idx, max,
                   max_idx, lastResolved>>
    /\ UNCHANGED <<system, contacts_used, calculate_iterations, pipeFailed, cgs,
                   force_registry, added_since_step, unregistered>>
    /\ UNCHANGED <<bvhVars, narrowVars, bodyVars, arenaVars, substepVars>>

\* ParticlePipeline::register_force(particle, fg) of pipeline.rs
ForcePipelineRegisterForce(particle, fg) ==
    /\ system = "pipeline::ParticlePipeline"
    /\ Len(force_registry) < MaxPipelineRegistrations
    /\ force_registry' = Append(force_registry, Registration(particle, fg))
    /\ UNCHANGED <<system, contacts_used, calculate_iterations, pipeFailed, steps, cgs,
                   added_since_step, unregistered>>
    /\ UNCHANGED <<bvhVars, resolverVars, narrowVars, bodyVars, arenaVars, substepVars>>

NextForcePipeline ==
    \/ ForcePipelineStep
    \/ \E particle \in 1..2, fg \in DOMAIN Fgs : ForcePipelineRegisterForce(particle, fg)
    \/ \E particle \in 1..2, fg \in DOMAIN Fgs : UnregisterForce(particle, fg)

SpecForcePipeline == InitForcePipeline /\ [][NextForcePipeline]_vars

(***************************************************************************)
(* The narrow phase called on pairs of cuboids.  Cuboid A stands at the    *)
(* origin; the rotations are the identity and the rotation about Z with    *)
(* cosine 3/5 and sine 4/5, so every axis the code normalizes has a        *)
(* rational length.                                                        *)
(***************************************************************************)
MaxNarrowCalls == 2

Rotations ==
    {<<VecI(1, 0, 0), VecI(0, 1, 0), VecI(0, 0, 1)>>,
     <<Vec(Frac(3, 5), Frac(4, 5), RZero), Vec(Frac(-4, 5), Frac(3, 5), RZero),
       VecI(0, 0, 1)>>}

CuboidPositions ==
    {VecI(3, 0, 0), Vec(Frac(3, 2), RZero, RZero), VecI(1, 1, 0),
     Vec(RZero, RZero, Frac(7, 4))}

HalfSizes == {VecI(1, 1, 1), Vec(R(1), RHalf, R(2))}

\* cuboids turned about the Z axis only: an edge axis never beats a face axis
AlignedCalls ==
    {[cuboid_a |-> Cuboid(VecI(1, 1, 1)),
      transform_a |-> Mat4(ra[1], ra[2], ra[3], VZero),
      cuboid_b |-> Cuboid(hb),
      transform_b |-> Mat4(rb[1], rb[2], rb[3], pb)] :
        ra \in Rotations, rb \in Rotations, pb \in CuboidPositions, hb \in HalfSizes}

\* a rotation that keeps no coordinate axis, and the axes of a cuboid taken in
\* the three cyclic orders (each order is a rotation again)
Upright == <<VecI(1, 0, 0), VecI(0, 1, 0), VecI(0, 0, 1)>>
Tilted ==
    <<Vec(Frac(12, 25), Frac(9, 25), Frac(4, 5)),
      Vec(Frac(-16, 25), Frac(-12, 25), Frac(3, 5)),
      Vec(Frac(3, 5), Frac(-4, 5), RZero)>>
Cycled(axes, n) == <<axes[(n % 3) + 1], axes[((n + 1) % 3) + 1], axes[((n + 2) % 3) + 1]>>

\* two unit cubes that meet edge against edge: the overlap is smallest on the
\* cross product of the axis of A and the axis of B that are cycled to the end
EdgeCalls ==
    {[cuboid_a |-> Cuboid(VecI(1, 1, 1)),
      transform_a |-> Mat4(Cycled(Upright, na)[1], Cycled(Upright, na)[2],
                           Cycled(Upright, na)[3], VZero),
      cuboid_b |-> Cuboid(VecI(1, 1, 1)),
      transform_b |-> Mat4(Cycled(Tilted, nb)[1], Cycled(Tilted, nb)[2],
                           Cycled(Tilted, nb)[3], VecI(-1, -1, 0))] :
        na \in 0..2, nb \in 0..2}

CuboidCalls == AlignedCalls \cup EdgeCalls

InitNarrow ==
    /\ BvhUnused
    /\ SubstepUnused
    /\ BodyUnused
    /\ ArenaUnused
    /\ ResolverUnused
    /\ PipelineUnused
    /\ data_contacts = <<>>
    /\ narrowFailed = FALSE
    /\ cuboids = <<>>

\* cuboid_and_cuboid(cuboid_a, &transform_a, cuboid_b, &transform_b, data)
\* with data.body_a = 1, data.body_b = Some(2) and the contacts pushed so far
CuboidAndCuboidCall ==
    /\ ~narrowFailed
    /\ Len(data_contacts) < MaxNarrowCalls
    /\ \E call \in CuboidCalls :
       \E res \in {CuboidAndCuboid(call.cuboid_a, call.transform_a,
                                   call.cuboid_b, call.transform_b,
                                   [body_a |-> 1, body_b |-> 2,
                                    contacts |-> data_contacts])} :
          /\ cuboids' = call
          /\ data_contacts' = res.contacts
          /\ narrowFailed' = res.failed
    /\ UNCHANGED <<bvhVars, resolverVars, pipelineVars, bodyVars, arenaVars, substepVars>>

NextNarrow == CuboidAndCuboidCall

SpecNarrow == InitNarrow /\ [][NextNarrow]_vars

(***************************************************************************)
(* Narrow phase: sphere_and_sphere and cuboid_and_half_space               *)
(***************************************************************************)
\* pairs of sphere centres at a rational distance
SphereCentres ==
    {<<VZero, VZero>>, <<VZero, VecI(3, 0, 0)>>, <<VZero, VecI(0, 4, 0)>>,
     <<VecI(1, 0, 0), VecI(4, 0, 0)>>, <<VecI(3, 0, 0), VecI(0, 4, 0)>>,
     <<VZero, VecI(2, 0, 0)>>, <<VecI(0, 0, 1), Vec(RZero, RZero, Frac(-1, 2))>>}

SphereCalls ==
    {[kind |-> "sphere_and_sphere",
      sphere_a |-> SpherePrimitive(ra),
      transform_a |-> Mat4(VecI(1, 0, 0), VecI(0, 1, 0), VecI(0, 0, 1), c[1]),
      sphere_b |-> SpherePrimitive(rb),
      transform_b |-> Mat4(VecI(1, 0, 0), VecI(0, 1, 0), VecI(0, 0, 1), c[2])] :
        ra \in {R(1), R(2)}, rb \in {R(1)}, c \in SphereCentres}

Planes == {Plane(VecI(0, 1, 0), RZero), Plane(VecI(1, 0, 0), R(-1))}

HalfSpaceCalls ==
    {[kind |-> "cuboid_and_half_space",
      cuboid |-> Cuboid(h),
      cuboid_transform |-> Mat4(r[1], r[2], r[3], pos),
      plane |-> plane] :
        h \in HalfSizes, r \in Rotations,
        pos \in {VecI(0, 1, 0), VecI(0, 3, 0), Vec(RZero, RHalf, RZero)},
        plane \in Planes}

\* sphere_and_sphere(sphere_a, &transform_a, sphere_b, &transform_b, data)
\* with data.body_a = 1, data.body_b = Some(2) and the contacts pushed so far
SphereAndSphereCall ==
    /\ ~narrowFailed
    /\ Len(data_contacts) < MaxNarrowCalls
    /\ \E call \in SphereCalls :
          /\ cuboids' = call
          /\ data_contacts' = SphereAndSphere(call.sphere_a, call.transform_a,
                                              call.sphere_b, call.transform_b,
                                              [body_a |-> 1, body_b |-> 2,
                                               contacts |-> data_contacts]).contacts
    /\ UNCHANGED narrowFailed
    /\ UNCHANGED <<bvhVars, resolverVars, pipelineVars, bodyVars, arenaVars, substepVars>>

\* cuboid_and_half_space(cuboid, &cuboid_transform, plane, data) with
\* data.body_a = 1, data.body_b = None and the contacts pushed so far
CuboidAndHalfSpaceCall ==
    /\ ~narrowFailed
    /\ Len(data_contacts) < MaxNarrowCalls
    /\ \E call \in HalfSpaceCalls :
          /\ cuboids' = call
          /\ data_contacts' = CuboidAndHalfSpace(call.cuboid, call.cuboid_transform,
                                                 call.plane,
                                                 [body_a |-> 1, body_b |-> NoBody,
                                                  contacts |-> data_contacts]).contacts
    /\ UNCHANGED narrowFailed
    /\ UNCHANGED <<bvhVars, resolverVars, pipelineVars, bodyVars, arenaVars, substepVars>>

NextPrimitives == SphereAndSphereCall \/ CuboidAndHalfSpaceCall

SpecPrimitives == InitNarrow /\ [][NextPrimitives]_vars

(***************************************************************************)
(* Arena operations                                                        *)
(***************************************************************************)
MaxInserts == 3
ArenaValues == {"p", "q"}

\* ParticleSet::new()
InitArena ==
    /\ BvhUnused
    /\ SubstepUnused
    /\ ResolverUnused
    /\ PipelineUnused
    /\ NarrowUnused
    /\ BodyUnused
    /\ arena = SlotMapNew
    /\ issued = <<>>
    /\ removedKeys = {}
    /\ disjoint = <<>>

\* the handles insert has returned, and one that it never returns
IssuedKeys == {issued[i] : i \in DOMAIN issued}
KeyPool == IssuedKeys \cup {Handle(MaxInserts + 1, 1)}
\* the arguments of get_disjoint_mut::<2>
KeyPairs == [1..2 -> KeyPool]

\* set.insert(value)
ArenaInsertCall(value) ==
    /\ Len(issued) < MaxInserts
    /\ arena' = ArenaInsert(arena, value).arena
    /\ issued' = Append(issued, ArenaInsert(arena, value).key)
    /\ UNCHANGED <<removedKeys, disjoint>>
    /\ UNCHANGED <<bvhVars, resolverVars, pipelineVars, narrowVars, bodyVars, substepVars>>

\* set.remove(key)
ArenaRemoveCall(key) ==
    /\ arena' = ArenaRemove(arena, key).arena
    /\ removedKeys' = IF ArenaRemove(arena, key).value # None
                      THEN removedKeys \cup {key} ELSE removedKeys
    /\ UNCHANGED <<issued, disjoint>>
    /\ UNCHANGED <<bvhVars, resolverVars, pipelineVars, narrowVars, bodyVars, substepVars>>

\* set.get_disjoint_mut(keys)
ArenaGetDisjointMutCall(keys) ==
    /\ disjoint' = [keys |-> keys, result |-> ArenaGetDisjointMut(arena, keys)]
    /\ UNCHANGED <<arena, issued, removedKeys>>
    /\ UNCHANGED <<bvhVars, resolverVars, pipelineVars, narrowVars, bodyVars, substepVars>>

NextArena ==
    \/ \E value \in ArenaValues : ArenaInsertCall(value)
    \/ \E key \in KeyPool : ArenaRemoveCall(key)
    \/ \E keys \in KeyPairs : ArenaGetDisjointMutCall(keys)

SpecArena == InitArena /\ [][NextArena]_vars

(***************************************************************************)
(* Rigid body: update_derived_data and integrate on one body               *)
(***************************************************************************)
MaxBodyCalls == 2

Orientations ==
    {QuatIdentity,
     Quat(RZero, RZero, RZero, ROne),
     Quat(RZero, ROne, RZero, RZero),
     Quat(RZero, RZero, RZero, R(2)),
     Quat(RZero, RZero, RZero, RZero)}
Tensors ==
    {Mat3Identity,
     <<R(1), RZero, RZero, RZero, R(2), RZero, RZero, RZero, R(3)>>,
     <<R(2), RZero, R(1), RZero, R(2), RZero, R(1), RZero, R(2)>>}
RigidBodies ==
    {RigidBody(ROne, position, orientation, velocity, tensor) :
        position \in {VZero, VecI(1, 2, 3)},
        orientation \in Orientations,
        velocity \in {VZero, VecI(1, 0, 0)},
        tensor \in Tensors}

InitBody ==
    /\ BvhUnused
    /\ SubstepUnused
    /\ ResolverUnused
    /\ PipelineUnused
    /\ NarrowUnused
    /\ ArenaUnused
    /\ rigid_body \in RigidBodies
    /\ bodyCalls = 0

\* body.update_derived_data()
UpdateDerivedDataCall ==
    /\ bodyCalls < MaxBodyCalls
    /\ bodyCalls' = bodyCalls + 1
    /\ rigid_body' = UpdateDerivedData(rigid_body)
    /\ UNCHANGED <<bvhVars, resolverVars, pipelineVars, narrowVars, arenaVars, substepVars>>

\* body.integrate(duration)
IntegrateCall ==
    /\ bodyCalls < MaxBodyCalls
    /\ bodyCalls' = bodyCalls + 1
    /\ rigid_body' = RigidBodyIntegrate(rigid_body, Duration)
    /\ UNCHANGED <<bvhVars, resolverVars, pipelineVars, narrowVars, arenaVars, substepVars>>

NextBody == UpdateDerivedDataCall \/ IntegrateCall

SpecBody == InitBody /\ [][NextBody]_vars

(***************************************************************************)
(* A time span covered by successive Particle::integrate calls             *)
(***************************************************************************)
MaxSubsteps == 4

SubstepParticles ==
    {[Particle(position, velocity, acceleration, damping, inverse_mass)
         EXCEPT !.force_accum = force_accum] :
        position \in {VZero, VecI(1, 2, 3)},
        velocity \in {VZero, VecI(1, -2, 3)},
        acceleration \in {VZero, VecI(0, -1, 0)},
        damping \in {ROne, RZero},
        inverse_mass \in {ROne, R(2), RZero},
        force_accum \in {VZero, VecI(1, 0, 0)}}

SubstepTotals == {RHalf, ROne, R(3)}

InitSubsteps ==
    /\ BvhUnused
    /\ ResolverUnused
    /\ PipelineUnused
    /\ NarrowUnused
    /\ BodyUnused
    /\ ArenaUnused
    /\ sub_particle \in SubstepParticles
    /\ sub_start = sub_particle
    /\ sub_total \in SubstepTotals
    /\ sub_count \in 1..MaxSubsteps
    /\ sub_calls = 0

\* particle.integrate(T / k)
SubstepIntegrate ==
    /\ sub_calls < sub_count
    /\ sub_calls' = sub_calls + 1
    /\ sub_particle' = Integrate(sub_particle, RDiv(sub_total, R(sub_count)))
    /\ UNCHANGED <<sub_start, sub_total, sub_count>>
    /\ UNCHANGED <<bvhVars, resolverVars, pipelineVars, narrowVars, bodyVars, arenaVars>>

NextSubsteps == SubstepIntegrate

SpecSubsteps == InitSubsteps /\ [][NextSubsteps]_vars

(***************************************************************************)
(* Bvh operations                                                          *)
(***************************************************************************)
\* Bvh::new(root, volume)
InitBvh ==
    \E volume \in Volumes :
        LET t == BvhNew(1, volume)
        IN  /\ nodes = t.nodes
            /\ root = t.root
            /\ nextKey = t.next
            /\ bvhFailed = t.failed
            /\ bodyPos = [b \in Bodies |-> IF b = 1 THEN volume.center ELSE VZero]
            /\ inserted = {1}
            /\ removed = {}
            /\ potential = <<>>
            /\ moves = 0
            /\ ResolverUnused
            /\ SubstepUnused
            /\ PipelineUnused
            /\ NarrowUnused
            /\ BodyUnused
            /\ ArenaUnused

\* Bvh::insert(new_body, new_volume); bodies are handed in in index order
BvhInsert ==
    /\ ~bvhFailed
    /\ Cardinality(inserted) < MaxBodies
    /\ \E volume \in Volumes :
        LET body == Cardinality(inserted) + 1
        IN  /\ SetTree(Insert(Tree, body, volume))
            /\ bodyPos' = [bodyPos EXCEPT ![body] = volume.center]
            /\ inserted' = inserted \cup {body}
    /\ potential' = <<>>
    /\ UNCHANGED <<removed, moves>>
    /\ UNCHANGED <<resolverVars, pipelineVars, narrowVars, bodyVars, arenaVars, substepVars>>

\* Bvh::remove_body(body)
BvhRemoveBody ==
    /\ ~bvhFailed
    /\ \E body \in inserted :
        LET res == RemoveBody(Tree, body)
        IN  /\ SetTree(res.tree)
            /\ removed' = IF res.found /\ ~res.tree.failed
                          THEN removed \cup {body} ELSE removed
    /\ potential' = <<>>
    /\ UNCHANGED <<bodyPos, inserted, moves>>
    /\ UNCHANGED <<resolverVars, pipelineVars, narrowVars, bodyVars, arenaVars, substepVars>>

\* a body of the RigidBodySet changes position (integration, or the caller)
MoveBody ==
    /\ ~bvhFailed
    /\ moves < MaxMoves
    /\ \E body \in inserted \ removed, pos \in Positions :
        /\ pos # bodyPos[body]
        /\ bodyPos' = [bodyPos EXCEPT ![body] = pos]
    /\ moves' = moves + 1
    /\ potential' = <<>>
    /\ UNCHANGED <<nodes, root, nextKey, bvhFailed, inserted, removed>>
    /\ UNCHANGED <<resolverVars, pipelineVars, narrowVars, bodyVars, arenaVars, substepVars>>

\* Bvh::update(bodies)
BvhUpdate ==
    /\ ~bvhFailed
    /\ SetTree(Update(Tree, bodyPos))
    /\ potential' = <<>>
    /\ UNCHANGED <<bodyPos, inserted, removed, moves>>
    /\ UNCHANGED <<resolverVars, pipelineVars, narrowVars, bodyVars, arenaVars, substepVars>>

\* Bvh::generate_potential_contacts(contacts), contacts handed in empty
BvhGeneratePotentialContacts ==
    /\ ~bvhFailed
    /\ LET res == GeneratePotentialContacts(Tree)
       IN  /\ potential' = res.out
           /\ bvhFailed' = res.failed
    /\ UNCHANGED <<nodes, root, nextKey, bodyPos, inserted, removed, moves>>
    /\ UNCHANGED <<resolverVars, pipelineVars, narrowVars, bodyVars, arenaVars, substepVars>>

NextBvhInsertRemove ==
    \/ BvhInsert
    \/ BvhRemoveBody
    \/ BvhGeneratePotentialContacts

NextBvh ==
    \/ BvhInsert
    \/ BvhRemoveBody
    \/ MoveBody
    \/ BvhUpdate
    \/ BvhGeneratePotentialContacts

\* inserts, removes and queries only
SpecBvhInsertRemove == InitBvh /\ [][NextBvhInsertRemove]_vars
\* inserts, removes, updates and queries
SpecBvh == InitBvh /\ [][NextBvh]_vars

(***************************************************************************)
(* Properties of the Bvh                                                   *)
(***************************************************************************)
\* sphere inner lies within sphere outer
Encloses(outer, inner) ==
    /\ RGe(outer.radius, inner.radius)
    /\ RLe(DistanceToSquared(outer.center, inner.center),
           RMul(RSub(outer.radius, inner.radius), RSub(outer.radius, inner.radius)))

\* the two spheres share interior points
SpheresIntersect(a, b) ==
    RLt(DistanceToSquared(a.center, b.center),
        RMul(RAdd(a.radius, b.radius), RAdd(a.radius, b.radius)))

RECURSIVE ReachableFrom(_)
ReachableFrom(id) ==
    IF id \notin DOMAIN nodes THEN {}
    ELSE IF nodes[id].data.kind = "Branch"
    THEN {id} \cup ReachableFrom(nodes[id].data.left) \cup ReachableFrom(nodes[id].data.right)
    ELSE {id}

ReachableLeaves(body) ==
    {id \in ReachableFrom(root) :
        nodes[id].data.kind = "Leaf" /\ nodes[id].data.body = body}

TreeEmpty == DOMAIN nodes = {}
LiveBodies == inserted \ removed

\* C1: after any sequence of insert and remove_body calls from Bvh::new, with
\* no update in between, every Branch node's volume encloses the volumes of
\* both of its children.
C1_BranchEnclosesChildren ==
    ~bvhFailed =>
        \A id \in DOMAIN nodes :
            nodes[id].data.kind = "Branch" =>
                /\ Encloses(nodes[id].volume, nodes[nodes[id].data.left].volume)
                /\ Encloses(nodes[id].volume, nodes[nodes[id].data.right].volume)

\* C4: once remove_body has removed the only body, the tree is an empty tree:
\* the next generate_potential_contacts emits no pair, the next insert makes
\* a fresh root leaf holding only the new body, and neither call fails.
C4_EmptyTreeUsable ==
    [][(TreeEmpty /\ ~bvhFailed) =>
          /\ ~bvhFailed'
          /\ potential' = <<>>
          /\ inserted' # inserted =>
                /\ DOMAIN nodes' = {root'}
                /\ nodes'[root'].data.kind = "Leaf"
                /\ nodes'[root'].data.body \in inserted' \ inserted]_vars

\* C5: while the tree is non-empty, every body inserted and not removed is
\* carried by exactly one leaf reachable from the root, and no other body is
\* carried by a reachable leaf.
C5_EachBodyInOneLeaf ==
    (~bvhFailed /\ ~TreeEmpty) =>
        \A body \in Bodies :
            /\ body \in LiveBodies => Cardinality(ReachableLeaves(body)) = 1
            /\ body \notin LiveBodies => ReachableLeaves(body) = {}

C5_Witness ==
    /\ ~bvhFailed
    /\ removed # {}
    /\ Cardinality(LiveBodies) >= 2
    /\ \A body \in LiveBodies : Cardinality(ReachableLeaves(body)) = 1

\* the volume of the leaf that carries body
LeafVolume(body) ==
    nodes[CHOOSE id \in DOMAIN nodes :
            nodes[id].data.kind = "Leaf" /\ nodes[id].data.body = body].volume

\* C8: generate_potential_contacts emits no pair of bodies whose leaf
\* volumes do not overlap, in any tree inserts, removes and updates reach.
C8_EmittedPairsOverlap ==
    \A i \in 1..Len(potential) :
        SpheresIntersect(LeafVolume(potential[i].body_a), LeafVolume(potential[i].body_b))

C8_Witness ==
    /\ Len(potential) >= 1
    /\ moves > 0
    /\ \E a \in LiveBodies, b \in LiveBodies :
          a # b /\ ~SpheresIntersect(LeafVolume(a), LeafVolume(b))

(***************************************************************************)
(* ParticleContactResolver claims                                          *)
(***************************************************************************)
\* C2: a call of resolve that has started returns: from the test of the while
\* loop the call always reaches its end, whatever the contacts and the cap
C2_ResolveTerminates == (pc = "while") ~> (pc = "done")

\* C3: when resolve has returned, it has resolved at most `iterations` contacts
C3_IterationsCapped == (pc = "done") => (iterations_used <= iterations)

\* C6: right after a contact was resolved, its separating velocity, computed
\* again from the particles' new velocities, is not negative
C6_ResolvedContactSeparates ==
    (lastResolved # -1) =>
        RGe(CalculateSeperatingVelocity(particles, contacts[lastResolved + 1]), RZero)

\* C7: when a contact between two particles that close on each other, with a
\* positive total inverse mass, is resolved, particle A's velocity changes by
\* +J * inverse_mass_a * normal and particle B's by -J * inverse_mass_b * normal,
\* where J = (new_sep_velocity - sep_velocity) / (inverse_mass_a + inverse_mass_b)
C7_EqualAndOppositeImpulses ==
    [][(/\ ResolveForResolve
        /\ CurrentContact.particle_b # NoParticle
        /\ RLt(CurrentSepVel, RZero)
        /\ RGt(TotalInvMass(particles, CurrentContact), RZero))
       => LET c == CurrentContact
              J == RDiv(RSub(NewSepVelocity(particles, c, Duration), CurrentSepVel),
                        TotalInvMass(particles, c))
          IN  /\ VSub(particles'[c.particle_a].velocity, particles[c.particle_a].velocity)
                   = VScale(c.normal, RMul(J, particles[c.particle_a].inverse_mass))
              /\ VSub(particles'[c.particle_b].velocity, particles[c.particle_b].velocity)
                   = VNeg(VScale(c.normal, RMul(J, particles[c.particle_b].inverse_mass)))
      ]_vars

(***************************************************************************)
(* Contact buffer claims                                                   *)
(***************************************************************************)
\* the length of the slice a generator is handed first
RemainingContacts ==
    IF system = "ParticlePhysicsSystem" THEN Len(contacts) ELSE Len(contacts) - contacts_used

GenerateContactsCall ==
    \/ PhysicsSystemStep
    \/ PhysicsSystemGenerateContacts
    \/ \E cg \in ContactGenerators : PipelineGenerateContacts(cg)

\* C9: the contacts in use never exceed max_contacts, the length of the
\* buffer, and a generate_contacts call made while the buffer is full neither
\* fails nor changes a stored contact
C9_FullBufferDropsSilently ==
    [][/\ contacts_used' <= Len(contacts')
       /\ (GenerateContactsCall /\ RemainingContacts = 0)
            => (~pipeFailed' /\ contacts' = contacts)]_vars

(***************************************************************************)
(* Narrow phase claims                                                     *)
(***************************************************************************)
\* some axis the loop tests has a negative overlap: the cuboids are separated
SeparatedOnTestedAxis(call) ==
    \E i \in 0..14 :
        /\ AxisTested(Axes(call.transform_a, call.transform_b)[i + 1])
        /\ RLt(ScaledOverlap(call.cuboid_a, call.transform_a,
                             call.cuboid_b, call.transform_b,
                             Axes(call.transform_a, call.transform_b)[i + 1]).u, RZero)

\* C10: a cuboid_and_cuboid call on two cuboids that have a negative overlap
\* on one of the tested axes appends no contact to data.contacts
C10_SeparatedCuboidsNoContact ==
    [][(CuboidAndCuboidCall /\ SeparatedOnTestedAxis(cuboids'))
        => data_contacts' = data_contacts]_vars

(***************************************************************************)
(* Order of the contacts                                                   *)
(***************************************************************************)
\* resolve has just been entered: particles and contacts are its arguments
ResolveEntered ==
    /\ pc = "while"
    /\ iterations_used = 0
    /\ lastResolved = -1

\* the slice resolve was handed
ContactSlice == SubSeq(contacts, 1, num_contacts)

Permuted(cs, perm) == [k \in 1..Len(cs) |-> cs[perm[k]]]

\* C11: for every permutation of the contact array, resolve run on it from the
\* same particles leaves the same particles as the run on the array itself,
\* whenever both runs return
C11_OrderInsensitive ==
    ResolveEntered =>
        \A perm \in Permutations(1..num_contacts) :
            (/\ Resolve(particles, ContactSlice, iterations, Duration).returns
             /\ Resolve(particles, Permuted(ContactSlice, perm), iterations, Duration).returns)
            => Resolve(particles, Permuted(ContactSlice, perm), iterations, Duration).particles
                 = Resolve(particles, ContactSlice, iterations, Duration).particles

(***************************************************************************)
(* Pipeline claims                                                         *)
(***************************************************************************)
StepCall == PhysicsSystemStep \/ PipelineStep \/ ParticleSystemStep

\* C12: a pipeline constructed with iterations = 0 calculates the cap, one
\* constructed with iterations = N > 0 does not; a step that has c > 0
\* contacts in use enters resolve on those c contacts with the cap 2 * c when
\* the cap is calculated, and with the cap N, unchanged, when it is not
C12_IterationCap ==
    /\ calculate_iterations = (iterations = 0)
    /\ [][/\ calculate_iterations' = calculate_iterations
          /\ ~calculate_iterations => (iterations' = iterations /\ iterations > 0)
          /\ (StepCall /\ ~pipeFailed' /\ contacts_used' > 0)
               => /\ pc' = "while"
                  /\ num_contacts' = contacts_used'
                  /\ iterations' = IF calculate_iterations THEN 2 * contacts_used'
                                   ELSE iterations
         ]_vars

\* a step has entered resolve on two contacts with the calculated cap of four
C12_Witness ==
    /\ system # "none"
    /\ calculate_iterations
    /\ pc = "while"
    /\ steps > 0
    /\ num_contacts = 2
    /\ iterations = 4

\* a step of either type named ParticlePhysicsSystem
PhysicsSystemStepCall == PhysicsSystemStep \/ ParticleSystemStep

\* C13: a ParticlePhysicsSystem::step deposits the forces of every registered
\* force generator, then integrates every particle, then takes the contacts
\* its resolver works on from the contact generators queried on the integrated
\* positions, and only then lets the resolver run
C13_PhasesInOrder ==
    [][PhysicsSystemStepCall =>
         /\ particles' = IntegrateAll(UpdateForces(Fgs, force_registry, 1, particles),
                                      Duration)
         /\ \A i \in 1..contacts_used' :
               \E cg \in ContactGenerators :
                   /\ HasContact(cg, particles')
                   /\ contacts'[i] = ContactOf(cg, particles')
         /\ pc' = "while" => iterations_used' = 0]_vars

(***************************************************************************)
(* Rigid body claims                                                       *)
(***************************************************************************)
\* C14: update_derived_data and integrate leave the body-space inverse inertia
\* tensor as it was and write that tensor, rotated by the new transform, to
\* the world-space inverse inertia tensor; and a second update_derived_data
\* right after the first changes nothing
C14_DerivedDataPure ==
    [][/\ (UpdateDerivedDataCall \/ IntegrateCall) =>
            /\ rigid_body'.inverse_inertia_tensor = rigid_body.inverse_inertia_tensor
            /\ rigid_body'.inverse_inertia_tensor_world =
                   InverseInertiaTensorToWorldCoords(rigid_body.inverse_inertia_tensor,
                       rigid_body'.transform_matrix)
       /\ UpdateDerivedDataCall => UpdateDerivedData(rigid_body') = rigid_body']_vars

(***************************************************************************)
(* Claims on sphere_and_sphere and cuboid_and_half_space                   *)
(***************************************************************************)
\* the contacts the call in this step appended
NewContacts == SubSeq(data_contacts', Len(data_contacts) + 1, Len(data_contacts'))
KeepsContacts == SubSeq(data_contacts', 1, Len(data_contacts)) = data_contacts

CentreA == GetPosition(cuboids'.transform_a)
CentreB == GetPosition(cuboids'.transform_b)
RadiusSum == RAdd(cuboids'.sphere_a.radius, cuboids'.sphere_b.radius)

\* C15: sphere_and_sphere appends one contact when the distance d of the
\* centres has 0 < d <= r_a + r_b and none otherwise; the contact has
\* penetration r_a + r_b - d and its point is as far from one centre as from
\* the other
C15_SphereContact ==
    [][SphereAndSphereCall =>
         /\ KeepsContacts
         /\ IF /\ RGt(DistanceTo(CentreA, CentreB), RZero)
               /\ RLe(DistanceTo(CentreA, CentreB), RadiusSum)
            THEN /\ Len(NewContacts) = 1
                 /\ NewContacts[1].penetration =
                        RSub(RadiusSum, DistanceTo(CentreA, CentreB))
                 /\ DistanceToSquared(NewContacts[1].point, CentreA)
                        = DistanceToSquared(NewContacts[1].point, CentreB)
            ELSE Len(NewContacts) = 0]_vars

\* the eight vertices of the cuboid of the call, in world coordinates
SignTriples == {VecI(sx, sy, sz) : sx \in {-1, 1}, sy \in {-1, 1}, sz \in {-1, 1}}
VertexOf(call, signs) ==
    Transform(call.cuboid_transform,
              Vec(RMul(call.cuboid.half_size.x, signs.x),
                  RMul(call.cuboid.half_size.y, signs.y),
                  RMul(call.cuboid.half_size.z, signs.z)))
Projection(call, signs) == Dot(VertexOf(call, signs), call.plane.normal)
VerticesAtOrBelow(call) ==
    {signs \in SignTriples : RLe(Projection(call, signs), call.plane.offset)}

\* C16: cuboid_and_half_space appends one contact for each vertex of the cuboid
\* whose projection onto the plane normal is at most the plane offset, and no
\* other contact; each has the plane normal as its normal and the offset minus
\* the vertex's projection as its penetration
C16_VertexContacts ==
    [][CuboidAndHalfSpaceCall =>
         /\ KeepsContacts
         /\ Len(NewContacts) = Cardinality(VerticesAtOrBelow(cuboids'))
         /\ \A signs \in VerticesAtOrBelow(cuboids') :
               \E i \in 1..Len(NewContacts) :
                   /\ NewContacts[i].normal = cuboids'.plane.normal
                   /\ NewContacts[i].penetration =
                          RSub(cuboids'.plane.offset, Projection(cuboids', signs))
                   /\ NewContacts[i].point =
                          VAdd(VertexOf(cuboids', signs),
                               VScale(cuboids'.plane.normal,
                                      RNeg(NewContacts[i].penetration)))]_vars

\* an axis-aligned cuboid resting on the plane y = 0 has just got its four
\* contacts, each of penetration 0
C16_Witness ==
    /\ cuboids # <<>>
    /\ cuboids.kind = "cuboid_and_half_space"
    /\ cuboids.cuboid_transform =
          Mat4(VecI(1, 0, 0), VecI(0, 1, 0), VecI(0, 0, 1), VecI(0, 1, 0))
    /\ cuboids.cuboid = Cuboid(VecI(1, 1, 1))
    /\ cuboids.plane = Plane(VecI(0, 1, 0), RZero)
    /\ Len(data_contacts) = 4
    /\ \A i \in 1..4 : /\ data_contacts[i].penetration = RZero
                        /\ data_contacts[i].point.y = RZero

(***************************************************************************)
(* Arena claims                                                            *)
(***************************************************************************)
\* C17: a handle that was removed is missing for get and contains in every
\* later state, whatever was inserted since, and no later insert returns it
C17_Generational ==
    /\ [](\A h \in removedKeys :
             ~ArenaContains(arena, h) /\ ArenaGet(arena, h) = None)
    /\ [][Len(issued') > Len(issued) => issued'[Len(issued')] \notin removedKeys]_vars

\* the slot of a removed handle holds a value again, under a newer handle
C17_Witness ==
    \E h \in removedKeys :
        \E k \in IssuedKeys :
            k.idx = h.idx /\ k # h /\ ArenaContains(arena, k)

\* C18: get_disjoint_mut leaves the arena as it is; it returns None when two
\* of the handles are equal or one of them is missing, and the values of all
\* the handles otherwise
C18_DisjointAccess ==
    [][(\E keys \in KeyPairs : ArenaGetDisjointMutCall(keys)) =>
         /\ arena' = arena
         /\ IF \/ \E i \in DOMAIN disjoint'.keys :
                     ArenaGet(arena, disjoint'.keys[i]) = None
               \/ Cardinality({disjoint'.keys[i] : i \in DOMAIN disjoint'.keys})
                     < Len(disjoint'.keys)
            THEN ~disjoint'.result.some
            ELSE /\ disjoint'.result.some
                 /\ DOMAIN disjoint'.result.refs = DOMAIN disjoint'.keys
                 /\ \A i \in DOMAIN disjoint'.keys :
                       disjoint'.result.refs[i] = ArenaGet(arena, disjoint'.keys[i])]_vars

\* a call with two distinct live handles has returned their values, after a
\* handle was removed
C18_Witness ==
    /\ disjoint # <<>>
    /\ disjoint.keys[1] # disjoint.keys[2]
    /\ disjoint.result.some
    /\ removedKeys # {}

(***************************************************************************)
(* Node count of the Bvh                                                   *)
(***************************************************************************)
\* C19: after any sequence of insert and remove_body calls the node arena
\* holds 2 * b - 1 nodes when b >= 1 bodies remain and none when no body
\* remains, and every node it holds is reachable from the root
C19_NodeCount ==
    ~bvhFailed =>
        /\ Cardinality(DOMAIN nodes) =
              IF Cardinality(LiveBodies) >= 1 THEN 2 * Cardinality(LiveBodies) - 1 ELSE 0
        /\ ReachableFrom(root) = DOMAIN nodes

\* a body was removed from a tree of three, and two remain under one branch
C19_Witness ==
    /\ ~bvhFailed
    /\ removed # {}
    /\ Cardinality(LiveBodies) = 2
    /\ Cardinality(DOMAIN nodes) = 3
    /\ ReachableFrom(root) = DOMAIN nodes

(***************************************************************************)
(* Particle::integrate on particles of infinite mass                       *)
(***************************************************************************)
\* the durations and the inverse masses integrate is tried with
Durations == {RZero, RHalf, ROne, R(2)}
NonPositiveMasses == {RZero, R(-1)}

KeepsMotion(p, q) ==
    /\ q.position = p.position
    /\ q.velocity = p.velocity
    /\ q.acceleration = p.acceleration

\* C20: Particle::integrate leaves the position, the velocity and the
\* acceleration of a particle with inverse_mass <= 0 as they were, for every
\* duration: in the integration phase of a step, and when it is applied to
\* any particle the system holds once that particle's inverse mass is not positive
C20_ImmovableSkipped ==
    /\ [][StepCall =>
            \A h \in DOMAIN particles :
                RLe(particles[h].inverse_mass, RZero)
                    => KeepsMotion(particles[h], particles'[h])]_vars
    /\ [](\A h \in DOMAIN particles, im \in NonPositiveMasses, d \in Durations :
             KeepsMotion([particles[h] EXCEPT !.inverse_mass = im],
                         Integrate([particles[h] EXCEPT !.inverse_mass = im], d)))

\* a step has integrated a particle of infinite mass that has a velocity
C20_Witness ==
    /\ steps > 0
    /\ \E h \in DOMAIN particles :
          /\ RLe(particles[h].inverse_mass, RZero)
          /\ particles[h].velocity # VZero

(***************************************************************************)
(* Integration in k steps                                                  *)
(***************************************************************************)
\* positive inverse mass, damping 1, no acceleration, no accumulated force
Linear(p) ==
    /\ RGt(p.inverse_mass, RZero)
    /\ p.damping = ROne
    /\ p.acceleration = VZero
    /\ p.force_accum = VZero

\* C21: for a particle with positive inverse mass, damping 1, acceleration 0
\* and no accumulated force, k successive integrate(T / k) calls from (p, v)
\* leave the velocity at v and end at the position p + v * T, whatever k is
C21_SubstepsIndependent ==
    Linear(sub_start) =>
        /\ sub_particle.velocity = sub_start.velocity
        /\ sub_calls = sub_count =>
              sub_particle.position =
                  VAdd(sub_start.position, VScale(sub_start.velocity, sub_total))

\* three calls of a third of the span have moved a particle that has a velocity
C21_Witness ==
    /\ Linear(sub_start)
    /\ sub_start.velocity # VZero
    /\ sub_count = 3
    /\ sub_calls = sub_count
    /\ sub_particle.position # sub_start.position

(***************************************************************************)
(* Which contact an iteration of resolve works on                          *)
(***************************************************************************)
SepVelOf(i) == CalculateSeperatingVelocity(particles, contacts[i])

\* contact i is the one the scan of all contacts would select
WorstContact(i) ==
    IF \E j \in 1..num_contacts : RLt(SepVelOf(j), RZero)
    THEN \A j \in 1..num_contacts : RLe(SepVelOf(i), SepVelOf(j))
    ELSE RGt(contacts[i].penetration, RZero)

ParticlesOf(c) == {c.particle_a, c.particle_b} \ {NoParticle}

\* C22: an iteration of resolve works on one contact, the one that has the
\* most negative separating velocity of all contacts (one with a positive
\* penetration when no separating velocity is negative), and it leaves the
\* particles of the other contacts as they were
C22_WorstContactResolved ==
    [][iterations_used' = iterations_used + 1 =>
         /\ WorstContact(lastResolved' + 1)
         /\ \A h \in DOMAIN particles :
                h \notin ParticlesOf(contacts[lastResolved' + 1])
                    => particles'[h] = particles[h]]_vars

(***************************************************************************)
(* The arms of the match on best_case                                      *)
(***************************************************************************)
\* what the loop over the axes selects for a pair of cuboids
BestOf(call) ==
    BestAxis(Axes(call.transform_a, call.transform_b),
             AxisOverlaps(call.cuboid_a, call.transform_a, call.cuboid_b, call.transform_b),
             0, MaxOverlap, NoCase)

\* the contact the arm of best_case is to push
ArmContact(call, best) ==
    IF best.best_case < 3
    THEN FillPointFaceCuboidCuboid(call.transform_a, call.cuboid_b, call.transform_b,
             ToCenter(call.transform_a, call.transform_b),
             [body_a |-> 1, body_b |-> 2], best.best_case, best.best_overlap)
    ELSE IF best.best_case < 6
    THEN FillPointFaceCuboidCuboid(call.transform_b, call.cuboid_a, call.transform_a,
             VScale(ToCenter(call.transform_a, call.transform_b), R(-1)),
             [body_a |-> 1, body_b |-> 2], best.best_case - 3, best.best_overlap)
    ELSE EdgeEdgeContact(call.cuboid_a, call.transform_a, call.cuboid_b, call.transform_b,
             ToCenter(call.transform_a, call.transform_b),
             [body_a |-> 1, body_b |-> 2], best.best_case, best.best_overlap)

\* C23: whichever of the axes 0 to 14 the loop selects, cuboid_and_cuboid
\* does not fail and appends one contact: the face contact of A for 0 to 2,
\* the face contact of B for 3 to 5, the edge contact of the axes
\* (index - 6) div 3 of A and (index - 6) mod 3 of B for 6 to 14, each with
\* penetration best_overlap (every step of the narrow phase is a call)
C23_EveryAxisHandled ==
    [][\A best \in {BestOf(cuboids')} :
          best.best_case \in 0..14
              => /\ ~narrowFailed'
                 /\ data_contacts' = Append(data_contacts, ArmContact(cuboids', best))
                 /\ data_contacts'[Len(data_contacts')].penetration = best.best_overlap]_vars

(***************************************************************************)
(* Parent links of the Bvh                                                 *)
(***************************************************************************)
\* the parent handle of node id names a live Branch that has id as a child
ParentLinked(id) ==
    /\ nodes[id].parent \in DOMAIN nodes
    /\ nodes[nodes[id].parent].data.kind = "Branch"
    /\ id \in {nodes[nodes[id].parent].data.left, nodes[nodes[id].parent].data.right}

\* remove_body is called on a body that a leaf of the tree carries
RemovesCarriedBody ==
    /\ ~bvhFailed
    /\ \E body \in LiveBodies :
          /\ LeavesOf(Tree, body) # {}
          /\ SetTree(RemoveBody(Tree, body).tree)

\* C24: in every tree that insert and remove_body reach, the root has no
\* parent and the parent handle of every other stored node names a live
\* Branch that lists the node as its left or right child; and a remove_body
\* call for a body that is in the tree does not fail and returns Some
C24_ParentLinksConsistent ==
    /\ [](~bvhFailed =>
            \A id \in DOMAIN nodes :
                IF id = root THEN nodes[id].parent = NoNode ELSE ParentLinked(id))
    /\ [][RemovesCarriedBody => (~bvhFailed' /\ removed' # removed)]_vars

(***************************************************************************)
(* Contacts from one frame to the next                                     *)
(***************************************************************************)
\* step of ParticlePipeline or of particle::ParticlePhysicsSystem is called
PipelineStepCall == PipelineStep \/ ParticleSystemStep

\* C25: in ParticlePipeline (and in the system of particle/system.rs) the
\* contacts of a frame are not in use in the next one: the contacts a step
\* hands to resolve are no more than generate_contacts added since the step
\* before it, and a step that follows a step without a generate_contacts call
\* in between resolves nothing
C25_ContactsNotCarriedOver ==
    [][PipelineStepCall =>
          /\ pc' = "while" => num_contacts' <= added_since_step
          /\ added_since_step = 0 => pc' = "idle"]_vars

(***************************************************************************)
(* Interpenetration of a two-particle contact                              *)
(***************************************************************************)
\* position of particle_a relative to particle_b, measured along the normal
RelativePosition(ps, c) ==
    Dot(VSub(ps[c.particle_a].position, ps[c.particle_b].position), c.normal)

\* C26: when resolve works on a contact between two particles that has a
\* positive penetration and a positive total inverse mass, the contact
\* records for each particle the movement normal * penetration /
\* total_inv_mass times the inverse mass of that particle, and the position
\* of particle_a relative to particle_b along the normal grows by exactly the
\* penetration
C26_InterpenetrationRemoved ==
    [][iterations_used' = iterations_used + 1 =>
          \A c \in {contacts[lastResolved' + 1]} :
              (c.particle_b # NoParticle /\ Interpenetrating(particles, c)) =>
                  /\ contacts'[lastResolved' + 1].particle_a_movement =
                         VScale(MovePerInvMass(particles, c),
                                particles[c.particle_a].inverse_mass)
                  /\ contacts'[lastResolved' + 1].particle_b_movement =
                         VScale(MovePerInvMass(particles, c),
                                particles[c.particle_b].inverse_mass)
                  /\ RSub(RelativePosition(particles', c), RelativePosition(particles, c))
                         = c.penetration]_vars

(***************************************************************************)
(* The leaf an insert splits                                               *)
(***************************************************************************)
\* the leaf the descent from id ends at when a Branch hands the volume to the
\* child of smaller growth and to the left child when both grow the same
RECURSIVE LeafTiesLeft(_, _, _)
LeafTiesLeft(t, id, new_volume) ==
    IF ~Live(t, id) THEN NoNode
    ELSE IF t.nodes[id].data.kind = "Leaf" THEN id
    ELSE LET left == t.nodes[id].data.left
             right == t.nodes[id].data.right
         IN  IF ~Live(t, left) \/ ~Live(t, right) THEN NoNode
             ELSE IF RLe(GetGrowth(t.nodes[left].volume, new_volume),
                         GetGrowth(t.nodes[right].volume, new_volume))
             THEN LeafTiesLeft(t, left, new_volume)
             ELSE LeafTiesLeft(t, right, new_volume)

\* node id of tree t was split by the insert that led to the primed tree: it
\* is a Branch now, its left child is the old leaf with id as parent, its
\* right child is new_id
SplitInto(id, new_id) ==
    /\ id \in DOMAIN nodes
    /\ nodes'[id].data.kind = "Branch"
    /\ nodes'[id].data.right = new_id
    /\ nodes'[id].data.left \in DOMAIN nodes' \ DOMAIN nodes
    /\ nodes'[nodes'[id].data.left] = WithParent(nodes[id], id)

\* C27: an insert that returns splits the leaf that the descent from the root
\* ends at when every Branch hands the new volume to the child of smaller
\* growth, and to the left child when both grow the same; the split leaf
\* becomes a Branch over a clone of the old leaf and a new leaf for the body
C27_InsertDescent ==
    [][(inserted' # inserted /\ ~bvhFailed') =>
          \A new_id \in LeavesOf(Tree', Cardinality(inserted) + 1) :
              /\ nodes'[new_id].data = Leaf(Cardinality(inserted) + 1)
              /\ \A id \in {LeafTiesLeft(Tree, root, nodes'[new_id].volume)} :
                     SplitInto(id, new_id)]_vars

\* the leaf the descent from id ends at when a Branch hands the volume to the
\* left child only if that child grows strictly less than the right one
RECURSIVE LeafTiesRight(_, _, _)
LeafTiesRight(t, id, new_volume) ==
    IF ~Live(t, id) THEN NoNode
    ELSE IF t.nodes[id].data.kind = "Leaf" THEN id
    ELSE LET left == t.nodes[id].data.left
             right == t.nodes[id].data.right
         IN  IF ~Live(t, left) \/ ~Live(t, right) THEN NoNode
             ELSE IF RLt(GetGrowth(t.nodes[left].volume, new_volume),
                         GetGrowth(t.nodes[right].volume, new_volume))
             THEN LeafTiesRight(t, left, new_volume)
             ELSE LeafTiesRight(t, right, new_volume)

\* C27, amended: an insert that returns splits the leaf that the descent from
\* the root ends at when every Branch hands the new volume to the left child
\* if that child grows strictly less and to the right child otherwise, also
\* when both grow the same; the split leaf becomes a Branch over a clone of
\* the old leaf and a new leaf for the body
C27_InsertDescentTiesRight ==
    [][(inserted' # inserted /\ ~bvhFailed') =>
          \A new_id \in LeavesOf(Tree', Cardinality(inserted) + 1) :
              /\ nodes'[new_id].data = Leaf(Cardinality(inserted) + 1)
              /\ \A id \in {LeafTiesRight(Tree, root, nodes'[new_id].volume)} :
                     SplitInto(id, new_id)]_vars

\* the third body went into a tree whose two leaves grew the same for it, and
\* the right leaf was split
C27_Witness ==
    /\ ~bvhFailed
    /\ removed = {}
    /\ Cardinality(inserted) = 3
    /\ nodes[root].data.kind = "Branch"
    /\ nodes[nodes[root].data.left].data.kind = "Leaf"
    /\ nodes[nodes[root].data.right].data.kind = "Branch"
    /\ nodes[nodes[nodes[root].data.right].data.right].data = Leaf(3)
    /\ GetGrowth(nodes[nodes[root].data.left].volume,
                 nodes[nodes[nodes[root].data.right].data.right].volume)
          = GetGrowth(nodes[nodes[nodes[root].data.right].data.left].volume,
                      nodes[nodes[nodes[root].data.right].data.right].volume)

(***************************************************************************)
(* Volumes above a collapsed node                                          *)
(***************************************************************************)
\* node id of the arena ns and the nodes above it, by the parent handles
RECURSIVE UpFrom(_, _)
UpFrom(ns, id) ==
    IF id = NoNode \/ id \notin DOMAIN ns THEN {}
    ELSE {id} \cup UpFrom(ns, ns[id].parent)

\* the Branch id of the primed tree has the enclosing volume of its children
EnclosesChildrenExactly(id) ==
    /\ nodes'[id].data.left \in DOMAIN nodes'
    /\ nodes'[id].data.right \in DOMAIN nodes'
    /\ nodes'[id].volume = NewEnclosing(nodes'[nodes'[id].data.left].volume,
                                        nodes'[nodes'[id].data.right].volume)

\* C28: when remove_body has removed a leaf that had a parent, the parent now
\* holds the payload of the sibling, and this node and every node above it
\* that is a Branch has the enclosing volume of its two children, whether the
\* sibling was a Leaf or a Branch
C28_AncestorsRecalculated ==
    [][(removed' # removed /\ ~bvhFailed') =>
          \A body \in removed' \ removed : \A leaf \in LeavesOf(Tree, body) :
              \A id \in UpFrom(nodes', nodes[leaf].parent) :
                  nodes'[id].data.kind = "Branch" => EnclosesChildrenExactly(id)]_vars

(***************************************************************************)
(* Completeness of the broad phase                                         *)
(***************************************************************************)
\* the entries of the list out that name the bodies a and b, in either order
EntriesFor(out, a, b) ==
    {i \in 1..Len(out) : {out[i].body_a, out[i].body_b} = {a, b}}

Registrations == {Registration(particle, fg) : particle \in 1..2, fg \in DOMAIN Fgs}

\* how often the registry holds the registration reg
Count(registry, reg) == Cardinality({i \in 1..Len(registry) : registry[i] = reg})

\* C30: unregister_force(particle, fg) returns false and leaves the registry
\* as it is when the pair is not registered; otherwise it returns true, the
\* registry holds the pair once less and every other registration as often as
\* before; so after register_force(particle, fg) a call unregister_force(
\* particle, fg) leads back to the registrations there were before both
C30_UnregisterRemovesOne ==
    [][\A reg \in Registrations :
          /\ UnregisterForce(reg.particle, reg.fg) =>
                IF Count(force_registry, reg) = 0
                THEN unregistered' = "false" /\ force_registry' = force_registry
                ELSE /\ unregistered' = "true"
                     /\ Count(force_registry', reg) = Count(force_registry, reg) - 1
                     /\ \A other \in Registrations \ {reg} :
                           Count(force_registry', other) = Count(force_registry, other)
                     /\ Len(force_registry') = Len(force_registry) - 1
          /\ ForcePipelineRegisterForce(reg.particle, reg.fg) =>
                \A i \in {Position(force_registry', reg)} :
                    /\ i # 0
                    /\ \A other \in Registrations :
                          Count(SwapRemove(force_registry', i), other)
                              = Count(force_registry, other)]_vars

\* unregister_force has returned true, and the registry it leaves holds two
\* different registrations
C30_Witness ==
    /\ system = "pipeline::ParticlePipeline"
    /\ unregistered = "true"
    /\ Len(force_registry) = 2
    /\ \E reg \in Registrations, other \in Registrations :
          /\ reg # other
          /\ Count(force_registry, reg) = 1
          /\ Count(force_registry, other) = 1

====
